---- MODULE Spec2Model ----
(***************************************************************************)
(* Cashfree / Supabase edge functions: every HTTP handler of the           *)
(* repository as a state machine.  One invocation is a chain of steps;     *)
(* a step runs from the completion of one awaited external call (the       *)
(* datastore, the payment gateway) to the issue of the next one, or to     *)
(* the response.  The ledger ("orders" table) outlives the invocations.    *)
(***************************************************************************)
EXTENDS Integers, Sequences, FiniteSets, TLC

(***************************************************************************)
(* Bounds of the model.                                                    *)
(***************************************************************************)
\* rows the "orders" table may hold
MaxOrders == 2
\* invocation slots of the hosting platform
NumProcs == 2

Procs == 1..NumProcs

(***************************************************************************)
(* JavaScript values.  A string-valued field that is undefined (and that   *)
(* JSON.stringify therefore omits) carries Undefined; null carries Null.   *)
(* Other values are tagged records.                                        *)
(***************************************************************************)
Undefined == "undefined"
Null == "null"
Num(n) == [t |-> "number", n |-> n]
Str(s) == [t |-> "string", s |-> s]
Undef == [t |-> "undefined"]

\* !x on a string-valued field
Falsy(s) == s \in {Undefined, Null, ""}
\* a || b on string-valued fields
OrElse(a, b) == IF Falsy(a) THEN b ELSE a
\* !x on a tagged value
FalsyVal(v) ==
  \/ v.t = "undefined"
  \/ v.t = "number" /\ v.n = 0
  \/ v.t = "string" /\ v.s = ""

\* String.prototype.toLowerCase on the strings the gateway sends
ToLowerCase(s) ==
  CASE s = "PAID" -> "paid"
    [] s = "ACTIVE" -> "active"
    [] s = "SANDBOX" -> "sandbox"
    [] s = "PRODUCTION" -> "production"
    [] OTHER -> s

(***************************************************************************)
(* Handlers.                                                               *)
(***************************************************************************)
Handlers ==
  { "create_ledger", "create_direct", "create_sdk", "fetch_order_f2",
    "fetch_payments_f2", "get_order", "fetch_order_sdk", "fetch_payment_sdk",
    "fetch_order_http" }

Methods == {"OPTIONS", "GET", "POST", "PUT"}

\* the corsHeaders constant of each handler
corsHeaders(h) ==
  [ allowOrigin |-> "*",
    allowHeaders |-> "authorization, x-client-info, apikey, content-type",
    allowMethods |->
      CASE h \in {"create_direct", "fetch_order_f2", "fetch_payments_f2"} -> "POST, OPTIONS"
        [] h \in {"fetch_order_sdk", "fetch_payment_sdk", "fetch_order_http"} -> "GET, OPTIONS"
        [] h = "create_sdk" -> "GET, POST, OPTIONS"
        [] OTHER -> Undefined ]

\* new Response(body, {status, headers}) with the handler's corsHeaders
Response(h, status, body) ==
  [status |-> status, headers |-> corsHeaders(h), body |-> body]

\* the json(data, status) helper: JSON body plus corsHeaders
json(h, data, status) == Response(h, status, data)

\* no response produced yet
NoResp == [status |-> 0, headers |-> [allowOrigin |-> Undefined], body |-> [raw |-> Undefined]]

\* a preflight answer without the Access-Control-Allow-Origin header
PreflightWithoutOrigin(h) ==
  [ status |-> 200,
    headers |-> [corsHeaders(h) EXCEPT !.allowOrigin = Undefined],
    body |-> [raw |-> "ok"] ]

\* the preflight answer: new Response("ok" | null, {headers: corsHeaders})
Preflight(h) ==
  Response(h, 200,
    [raw |-> IF h \in {"create_ledger", "get_order"} THEN Null ELSE "ok"])

(***************************************************************************)
(* Process configuration read through Deno.env.get at call time.           *)
(***************************************************************************)
EnvFlags == {Undefined, "sandbox", "SANDBOX", "PRODUCTION", "staging"}

\* which 'cashfree-pg' the import map resolves to: one with the v5 constructor,
\* one with the v4 static configuration, or none (the dynamic import throws)
SdkKinds == {"v5", "v4", "missing"}

Env(id, secret, supa, flag, sdk) ==
  [id |-> id, secret |-> secret, supa |-> supa, flag |-> flag, sdk |-> sdk]

\* complete configurations, one per flag
FullEnvs == { Env(TRUE, TRUE, TRUE, f, "v5") : f \in EnvFlags }
DefaultEnv == Env(TRUE, TRUE, TRUE, Undefined, "v5")

\* configurations with a hole
HoleEnvs ==
  { Env(FALSE, TRUE, TRUE, Undefined, "v5"), Env(TRUE, FALSE, TRUE, Undefined, "v5"),
    Env(TRUE, TRUE, FALSE, Undefined, "v5"), Env(FALSE, FALSE, FALSE, Undefined, "v5") }

\* configurations of the handlers that load the SDK
V4Envs == { Env(TRUE, TRUE, TRUE, f, "v4") : f \in {Undefined, "PRODUCTION"} }
NoSdkEnvs ==
  {Env(TRUE, TRUE, TRUE, Undefined, "missing"), Env(FALSE, TRUE, TRUE, Undefined, "missing")}

\* the (request, configuration) pairs a handler is driven with: every request
\* under the default configuration, the requests that reach the gateway under
\* every flag, and a sample of requests under every configuration with a hole
Inputs(all, reaching, probes) ==
  (all \X {DefaultEnv}) \cup (reaching \X FullEnvs) \cup (probes \X HoleEnvs)

SandboxUrl == "https://sandbox.cashfree.com"
ProductionUrl == "https://api.cashfree.com"

(***************************************************************************)
(* What the payment gateway may answer to one HTTP call.                   *)
(***************************************************************************)
statusText(s) ==
  CASE s = 200 -> "OK"
    [] s = 400 -> "Bad Request"
    [] s = 404 -> "Not Found"
    [] OTHER -> ""

UpThrow == [kind |-> "throw"]

\* a response whose body is not JSON
UpText(status) ==
  [kind |-> "resp", status |-> status, parses |-> FALSE, raw |-> "<html>"]

\* a response whose body is a JSON object
UpJson(status, fields) ==
  [kind |-> "resp", status |-> status, parses |-> TRUE, data |-> fields]

\* response.ok
Ok(r) == r.status >= 200 /\ r.status <= 299

UpFields(message, description, order_id, session, order_status) ==
  [ message |-> message, error_description |-> description,
    order_id |-> order_id, payment_session_id |-> session,
    order_status |-> order_status, order_amount |-> Undef,
    order_currency |-> Undefined ]

UpErrors ==
  { UpJson(400, UpFields("order_amount is invalid", Undefined, Undefined, Undefined, Undefined)),
    UpJson(404, UpFields(Undefined, "order not found", Undefined, Undefined, Undefined)),
    UpJson(400, UpFields(Undefined, Undefined, Undefined, Undefined, Undefined)),
    UpText(400) }

UpOrder(order_id, order_status) ==
  UpJson(200, [UpFields(Undefined, Undefined, order_id, "session_1", order_status)
                 EXCEPT !.order_amount = Num(100), !.order_currency = "INR"])


(***************************************************************************)
(* Requests.                                                               *)
(***************************************************************************)
NoCustomer ==
  [ present |-> FALSE, customerId |-> Undefined, customerPhone |-> Undefined,
    customerEmail |-> Undefined, customerName |-> Undefined ]

Customer(id, phone, email, name) ==
  [ present |-> TRUE, customerId |-> id, customerPhone |-> phone,
    customerEmail |-> email, customerName |-> name ]

FullCustomer == Customer("cust_1", "9876543210", "a@b.in", "Asha")

\* the snake-case blocks of the SDK-backed creation request
NoCustomerDetails ==
  [ present |-> FALSE, customer_id |-> Undefined, customer_phone |-> Undefined,
    customer_email |-> Undefined, customer_name |-> Undefined ]
NoOrderMeta ==
  [ present |-> FALSE, return_url |-> Undefined, notify_url |-> Undefined,
    payment_methods |-> Undefined ]

\* a request body that is not JSON (or no body at all): req.json() throws
BadBody == [kind |-> "invalid"]
\* the JSON text "null"
NullBody == [kind |-> "null"]
\* the JSON object {}
EmptyObj ==
  [ kind |-> "object", orderAmount |-> Undef, orderCurrency |-> Undefined,
    returnUrl |-> Undefined, customerDetails |-> NoCustomer, orderItems |-> <<>>,
    orderId |-> Undefined, order_id |-> Undefined,
    order_amount |-> Undef, order_currency |-> Undefined,
    customer_details |-> NoCustomerDetails, order_meta |-> NoOrderMeta ]

Item1 == [product_id |-> "prod_1", quantity |-> 2, price |-> 50]

Request(method, path, query, body) ==
  [method |-> method, path |-> path, query |-> query, body |-> body, origin |-> Null]

\* new URL(req.url).pathname.split("/"): "" where two slashes meet
Route(name) == <<"", "functions", "v1", name>>

NoQuery == [order_id |-> Undefined, cf_payment_id |-> Undefined]
NoReq == Request("", <<>>, NoQuery, BadBody)
NoEnv == Env(FALSE, FALSE, FALSE, Undefined, "v5")

(***************************************************************************)
(* Calls an invocation issues, and its locals.                             *)
(***************************************************************************)
NoBody == [none |-> TRUE]
HttpCall(method, url, version, body) ==
  [kind |-> "http", method |-> method, url |-> url, version |-> version, body |-> body]

\* .from(table).insert(values) / .update(values).eq("id", id)
DbCall(op, table, id, values) ==
  [op |-> op, table |-> table, id |-> id, values |-> values]

UpNone == [kind |-> "none"]
NoLoc == [orderId |-> Undefined, cfPaymentId |-> Undefined, up |-> UpNone]

\* a method of the SDK called with args, the API version first when given
SdkCall(method, version, args) ==
  [kind |-> "sdk", method |-> method, version |-> version, args |-> args]

\* what one step of a handler decides: the next position, the response (when
\* the position is "done"), the locals, and the calls it issues
Out(p, l, ups, dbs) == [pc |-> p, resp |-> NoResp, loc |-> l, up |-> ups, db |-> dbs]
Reply(l, r) == [pc |-> "done", resp |-> r, loc |-> l, up |-> <<>>, db |-> <<>>]

\* d.f with d possibly lacking f
Field(d, f) == IF f \in DOMAIN d THEN d[f] ELSE Undefined

\* the SDK class before any handler has written its static members
NoConfig ==
  [XClientId |-> Undefined, XClientSecret |-> Undefined, XEnvironment |-> Undefined]

(***************************************************************************)
(* State.                                                                  *)
(***************************************************************************)
VARIABLES
  unit,        \* the deployment the requests of this behaviour are sent to
  handler,     \* handler[i]: the handler invocation i runs
  req,         \* req[i]: its request
  env,         \* env[i]: the configuration it read
  pc,          \* pc[i]: "idle", the awaited call, or "done"
  loc,         \* loc[i]: its local variables
  resp,        \* resp[i]: the response it returned
  upCalls,     \* upCalls[i]: the gateway calls it issued, in order
  dbCalls,     \* dbCalls[i]: the datastore calls it issued, in order
  upResults,   \* upResults[i]: how its gateway calls settled, in order
  dbResults,   \* dbResults[i]: whether its datastore calls reported an error
  prev,        \* the last invocation served, as an observer of SpecRepeat saw it
  orders,      \* the "orders" table, one row per generated id
  orderItems,  \* the "order_items" table
  gateway,     \* the order_status the gateway holds for the order it reports
  CashfreeConfig  \* the static members of the SDK's Cashfree class

vars ==
  << unit, handler, req, env, pc, loc, resp, upCalls, dbCalls, upResults, dbResults,
     prev, orders, orderItems, gateway, CashfreeConfig >>

\* nothing has been served yet
NoPrev ==
  [ handler |-> "none", req |-> NoReq, env |-> NoEnv, resp |-> NoResp,
    upCalls |-> <<>>, upResults |-> <<>> ]

Init ==
  /\ unit = "none"
  /\ prev = NoPrev
  /\ handler = [i \in Procs |-> "none"]
  /\ req = [i \in Procs |-> NoReq]
  /\ env = [i \in Procs |-> NoEnv]
  /\ pc = [i \in Procs |-> "idle"]
  /\ loc = [i \in Procs |-> NoLoc]
  /\ resp = [i \in Procs |-> NoResp]
  /\ upCalls = [i \in Procs |-> <<>>]
  /\ dbCalls = [i \in Procs |-> <<>>]
  /\ upResults = [i \in Procs |-> <<>>]
  /\ dbResults = [i \in Procs |-> <<>>]
  /\ orders = <<>>
  /\ orderItems = {}
  /\ gateway = "ACTIVE"
  /\ CashfreeConfig = NoConfig

\* the invocation moves on as the step decided
Apply(i, o) ==
  /\ pc' = [pc EXCEPT ![i] = o.pc]
  /\ resp' = [resp EXCEPT ![i] = o.resp]
  /\ loc' = [loc EXCEPT ![i] = o.loc]
  /\ upCalls' = [upCalls EXCEPT ![i] = @ \o o.up]
  /\ dbCalls' = [dbCalls EXCEPT ![i] = @ \o o.db]

\* Every function is deployed on its own and keeps its own copy of the SDK;
\* the two ledger-backed functions meet in the "orders" table and share
\* nothing with the others.
Unit(h) == IF h \in {"create_ledger", "get_order"} THEN "ledger" ELSE h

\* the awaited call of invocation i settled: the gateway's with outcome
\* result, the datastore's with the error flag result
Settled(i, channel, result) ==
  /\ upResults' = IF channel = "gateway"
                    THEN [upResults EXCEPT ![i] = Append(@, result)] ELSE upResults
  /\ dbResults' = IF channel = "datastore"
                    THEN [dbResults EXCEPT ![i] = Append(@, result)] ELSE dbResults
  /\ UNCHANGED <<prev, gateway>>

\* the platform hands request r to handler h, which reads configuration e;
\* a behaviour follows the requests sent to one deployment
Accept(i, h, r, e) ==
  /\ pc[i] = "idle"
  /\ unit \in {"none", Unit(h)}
  /\ unit' = Unit(h)
  /\ UNCHANGED <<upResults, dbResults, prev, gateway>>
  /\ \A j \in Procs : pc[j] = "idle" => i <= j
  /\ handler' = [handler EXCEPT ![i] = h]
  /\ req' = [req EXCEPT ![i] = r]
  /\ env' = [env EXCEPT ![i] = e]

\* a datastore that hands the same id to every row
NewIdFixed == "ord_1"

\* the id the datastore generates for the next inserted row
NewId == "ord_" \o ToString(Len(orders) + 1)

\* .update(values).eq("id", id): every row with that id takes the values
Update(rows, call) ==
  [k \in 1..Len(rows) |->
     IF rows[k].id = call.id
       THEN [c \in DOMAIN rows[k] |->
               IF c \in DOMAIN call.values THEN call.values[c] ELSE rows[k][c]]
       ELSE rows[k]]

\* the call invocation i is waiting for
Awaited(calls) == calls[Len(calls)]

(***************************************************************************)
(* pg-create-order, ledger-backed.                                         *)
(***************************************************************************)
\* cfUrl: production unless CASHFREE_ENVIRONMENT lower-cases to "sandbox"
cfUrl(e) ==
  IF ~Falsy(e.flag) /\ ToLowerCase(e.flag) = "sandbox"
    THEN SandboxUrl \o "/pg/orders"
    ELSE ProductionUrl \o "/pg/orders"

\* the code of the handler up to its first awaited call
CreateLedgerBegin(r, e) ==
  LET h == "create_ledger" IN
  IF r.method = "OPTIONS" THEN Reply(NoLoc, Preflight(h))
  ELSE IF ~e.supa
    THEN Reply(NoLoc, json(h, [success |-> FALSE,
                               error |-> "Supabase configuration is missing"], 500))
  ELSE IF ~e.id \/ ~e.secret
    THEN Reply(NoLoc, json(h, [success |-> FALSE,
                 error |-> "Missing Cashfree credentials in environment variables"], 500))
  ELSE IF r.body.kind = "invalid"
    THEN Reply(NoLoc, json(h, [success |-> FALSE, error |-> "Unexpected server error"], 500))
  ELSE IF \/ r.body.kind = "null"
          \/ r.body.orderAmount.t # "number"
          \/ r.body.orderAmount.n <= 0
    THEN Reply(NoLoc, json(h, [success |-> FALSE, error |-> "Invalid amount"], 400))
  ELSE Out("cl_insert", NoLoc, <<>>,
           << DbCall("insert", "orders", Undefined,
                     [ total_amount |-> r.body.orderAmount.n, status |-> "pending",
                       return_url |-> OrElse(r.body.returnUrl, "") ]) >>)

\* the row an insert creates.  The table is modelled by the columns a handler
\* writes again later; total_amount and return_url stay in the insert call.
NewOrderRow(id, values) ==
  [ id |-> id, status |-> values.status,
    cashfree_order_id |-> Null, payment_session_id |-> Null ]

cfPayload(orderId, body) ==
  LET returnUrl == OrElse(body.returnUrl, "") IN
  [ order_id |-> orderId,
    order_amount |-> body.orderAmount.n,
    order_currency |-> OrElse(body.orderCurrency, "INR"),
    customer_details |->
      [ customer_id |-> OrElse(body.customerDetails.customerId, orderId),
        customer_phone |-> OrElse(body.customerDetails.customerPhone, "9999999999"),
        customer_email |-> OrElse(body.customerDetails.customerEmail, "test@example.com"),
        customer_name |-> OrElse(body.customerDetails.customerName, "Test Customer") ],
    order_meta |->
      [return_url |-> IF ~Falsy(returnUrl)
                        THEN returnUrl \o "?order_id=" \o orderId
                        ELSE Undefined],
    order_note |-> "Order from e-commerce checkout" ]

\* step 3: the gateway call
CreateLedgerCall(r, e, orderId) ==
  Out("cl_fetch", [NoLoc EXCEPT !.orderId = orderId],
      <<HttpCall("POST", cfUrl(e), "2025-01-01", cfPayload(orderId, r.body))>>, <<>>)

\* a continuation that does not look at orderErr
CreateLedgerInsertedUnchecked(r, e, orderErr, orderId) ==
  IF Len(r.body.orderItems) > 0
    THEN Out("cl_items", [NoLoc EXCEPT !.orderId = orderId], <<>>,
             <<DbCall("insert", "order_items", orderId, [items |-> r.body.orderItems])>>)
    ELSE CreateLedgerCall(r, e, orderId)

\* after the insert returned {data: orderRow, error: orderErr}
CreateLedgerInserted(r, e, orderErr, orderId) ==
  LET h == "create_ledger" IN
  IF orderErr
    THEN Reply(NoLoc, json(h, [success |-> FALSE, error |-> "Failed to create order"], 500))
  ELSE IF Len(r.body.orderItems) > 0
    THEN Out("cl_items", [NoLoc EXCEPT !.orderId = orderId], <<>>,
             <<DbCall("insert", "order_items", orderId, [items |-> r.body.orderItems])>>)
  ELSE CreateLedgerCall(r, e, orderId)

\* a continuation for which a failed order_items insert is fatal
CreateLedgerItemsInsertedFatal(r, e, itemsErr, orderId) ==
  IF itemsErr
    THEN Reply([NoLoc EXCEPT !.orderId = orderId],
               json("create_ledger",
                    [success |-> FALSE, error |-> "Failed to create order items"], 500))
    ELSE CreateLedgerCall(r, e, orderId)

\* after the order_items insert returned {error: itemsErr}: logged, not fatal
CreateLedgerItemsInserted(r, e, itemsErr, orderId) ==
  CreateLedgerCall(r, e, orderId)

\* cfData: the parsed body, or the stand-in built when JSON.parse throws
cfData(u) ==
  IF u.parses THEN u.data ELSE [error |-> "Invalid JSON response", raw |-> u.raw]

\* the failure response of the !cfRes.ok branch
CreateLedgerFailure(u) ==
  json("create_ledger",
    [ success |-> FALSE,
      error |-> OrElse(Field(cfData(u), "message"),
                  OrElse(Field(cfData(u), "error_description"),
                    "Cashfree API Error: " \o ToString(u.status) \o " " \o statusText(u.status))),
      details |-> [status |-> u.status, statusText |-> statusText(u.status),
                   response |-> cfData(u)] ], 500)

\* a success response that leaves the session out
CreateLedgerSuccessNoSession(orderId, u) ==
  json("create_ledger",
    [ success |-> TRUE, order_id |-> orderId,
      cashfree_order_id |-> Field(cfData(u), "order_id"),
      payment_session_id |-> Undefined ], 200)

\* the success response of step 4
CreateLedgerSuccess(orderId, u) ==
  json("create_ledger",
    [ success |-> TRUE, order_id |-> orderId,
      cashfree_order_id |-> Field(cfData(u), "order_id"),
      payment_session_id |-> Field(cfData(u), "payment_session_id") ], 200)

\* after fetch(cfUrl) settled with u
CreateLedgerFetched(l, u) ==
  LET h == "create_ledger" IN
  IF u.kind = "throw"
    THEN Reply(l, json(h, [success |-> FALSE, error |-> "Unexpected server error"], 500))
  ELSE IF ~Ok(u)
    THEN Out("cl_failed", [l EXCEPT !.up = u], <<>>,
             <<DbCall("update", "orders", l.orderId, [status |-> "failed"])>>)
  ELSE Out("cl_update", [l EXCEPT !.up = u], <<>>,
           << DbCall("update", "orders", l.orderId,
                [ status |-> "created",
                  cashfree_order_id |-> OrElse(Field(cfData(u), "order_id"), Null),
                  payment_session_id |->
                    OrElse(Field(cfData(u), "payment_session_id"), Null) ]) >>)

\* after the update to "failed" returned (its result is not looked at)
CreateLedgerMarkedFailed(l) == Reply(l, CreateLedgerFailure(l.up))

\* a continuation for which a failed update of the row is fatal
CreateLedgerUpdatedFatal(l, updErr) ==
  IF updErr
    THEN Reply(l, json("create_ledger",
                       [success |-> FALSE, error |-> "Failed to update order"], 500))
    ELSE Reply(l, CreateLedgerSuccess(l.orderId, l.up))

\* after the update with the payment refs returned {error: updErr}
CreateLedgerUpdated(l, updErr) == Reply(l, CreateLedgerSuccess(l.orderId, l.up))

\* what the gateway may answer to an order-creation call
UpCreateOutcomes(call) ==
  {UpThrow} \cup UpErrors \cup
  { UpOrder(call.body.order_id, "ACTIVE"),
    UpJson(200, UpFields(Undefined, Undefined, Undefined, Undefined, Undefined)),
    UpText(200) }

\* requests the ledger-backed creation handler is driven with
CreateLedgerBodies ==
  { BadBody, NullBody, EmptyObj,
    [EmptyObj EXCEPT !.orderAmount = Num(0)],
    [EmptyObj EXCEPT !.orderAmount = Str("100")],
    [EmptyObj EXCEPT !.orderAmount = Num(100)],
    [EmptyObj EXCEPT !.orderAmount = Num(100), !.orderItems = <<Item1>>],
    [EmptyObj EXCEPT !.orderAmount = Num(100), !.orderCurrency = "INR",
                     !.customerDetails = FullCustomer, !.orderItems = <<Item1>>,
                     !.returnUrl = "https://shop.example/return"] }

CreateLedgerRequests ==
  { Request(m, Route("pg-create-order"), NoQuery, b) :
      m \in {"OPTIONS", "POST"}, b \in CreateLedgerBodies }

CreateLedgerInputs ==
  Inputs(CreateLedgerRequests,
         {r \in CreateLedgerRequests :
            r.method = "POST" /\ r.body.kind = "object" /\ r.body.returnUrl # Undefined},
         {r \in CreateLedgerRequests : r.body.kind # "null"})

CreateLedgerStart(i) ==
  \E in \in CreateLedgerInputs :
   LET r == in[1]  e == in[2] IN
    /\ Accept(i, "create_ledger", r, e)
    /\ Apply(i, CreateLedgerBegin(r, e))
    /\ UNCHANGED <<orders, orderItems, CashfreeConfig>>

CreateLedgerInsert(i) ==
  /\ pc[i] = "cl_insert"
  /\ \E orderErr \in BOOLEAN :
       /\ ~orderErr => Len(orders) < MaxOrders
       /\ orders' = IF orderErr THEN orders
                    ELSE Append(orders, NewOrderRow(NewId, Awaited(dbCalls[i]).values))
       /\ Apply(i, CreateLedgerInserted(req[i], env[i], orderErr, NewId))
       /\ Settled(i, "datastore", orderErr)
  /\ UNCHANGED <<unit, handler, req, env, orderItems, CashfreeConfig>>

CreateLedgerItems(i) ==
  /\ pc[i] = "cl_items"
  /\ \E itemsErr \in BOOLEAN :
       /\ orderItems' = IF itemsErr THEN orderItems
                        ELSE orderItems \cup
                          { [ order_id |-> loc[i].orderId, product_id |-> it.product_id,
                              quantity |-> it.quantity, price |-> it.price ] :
                            it \in {req[i].body.orderItems[k] :
                                      k \in 1..Len(req[i].body.orderItems)} }
       /\ Apply(i, CreateLedgerItemsInserted(req[i], env[i], itemsErr, loc[i].orderId))
       /\ Settled(i, "datastore", itemsErr)
  /\ UNCHANGED <<unit, handler, req, env, orders, CashfreeConfig>>

CreateLedgerFetch(i) ==
  /\ pc[i] = "cl_fetch"
  /\ \E u \in UpCreateOutcomes(Awaited(upCalls[i])) :
       /\ Apply(i, CreateLedgerFetched(loc[i], u))
       /\ Settled(i, "gateway", u)
  /\ UNCHANGED <<unit, handler, req, env, orders, orderItems, CashfreeConfig>>

CreateLedgerMarkFailed(i) ==
  /\ pc[i] = "cl_failed"
  /\ \E err \in BOOLEAN :
       /\ orders' = IF err THEN orders ELSE Update(orders, Awaited(dbCalls[i]))
       /\ Settled(i, "datastore", err)
  /\ Apply(i, CreateLedgerMarkedFailed(loc[i]))
  /\ UNCHANGED <<unit, handler, req, env, orderItems, CashfreeConfig>>

CreateLedgerUpdate(i) ==
  /\ pc[i] = "cl_update"
  /\ \E updErr \in BOOLEAN :
       /\ orders' = IF updErr THEN orders
                    ELSE Update(orders, Awaited(dbCalls[i]))
       /\ Apply(i, CreateLedgerUpdated(loc[i], updErr))
       /\ Settled(i, "datastore", updErr)
  /\ UNCHANGED <<unit, handler, req, env, orderItems, CashfreeConfig>>

(***************************************************************************)
(* Messages of the errors the runtime and the libraries throw.             *)
(***************************************************************************)
\* SyntaxError of req.json(), response.json() and JSON.parse
JsonSyntaxError == "Unexpected token < in JSON at position 0"
\* TypeError of a rejected fetch
NetworkError == "error sending request"
\* TypeError of destructuring null
DestructureError == "Cannot destructure property of null"
\* TypeError of undefined.toLowerCase()
ToLowerCaseError == "Cannot read properties of undefined (reading 'toLowerCase')"
\* createClient(undefined, ...) of supabase-js
SupabaseUrlError == "supabaseUrl is required."
\* the error object a failed datastore call reports
DatastoreError == "datastore error"

\* what the gateway may answer to a lookup of orderId
UpFetchOutcomes(orderId) ==
  {UpThrow} \cup UpErrors \cup
  { UpOrder(orderId, "PAID"), UpOrder(orderId, "ACTIVE"),
    UpJson(200, UpFields(Undefined, Undefined, Undefined, Undefined, Undefined)),
    UpText(200) }

(***************************************************************************)
(* pg-create-order, direct HTTP (functions-2).                             *)
(***************************************************************************)
\* parseFloat
parseFloat(v) ==
  CASE v.t = "number" -> v
    [] v.t = "string" /\ v.s = "100" -> Num(100)
    [] OTHER -> [t |-> "NaN"]

\* the outer catch block
CreateDirectCaught(name, message) ==
  Response("create_direct", 500,
    [ success |-> FALSE, error |-> OrElse(message, "Unknown error occurred"),
      errorType |-> OrElse(name, "UnknownError"), debug |-> TRUE ])

\* environment === "PRODUCTION" ? production : sandbox, PRODUCTION when unset
ApiBase(e) ==
  IF OrElse(e.flag, "PRODUCTION") = "PRODUCTION" THEN ProductionUrl ELSE SandboxUrl

paymentPayload(orderId, customerId, body) ==
  [ order_id |-> orderId,
    order_amount |-> parseFloat(body.orderAmount),
    order_currency |-> "INR",
    customer_details |->
      [ customer_id |-> customerId,
        customer_email |-> body.customerDetails.customerEmail,
        customer_phone |-> body.customerDetails.customerPhone,
        customer_name |-> body.customerDetails.customerName ] ]

\* the handler up to fetch(apiUrl); g stands for Date.now() and Math.random()
CreateDirectBegin(r, e, g) ==
  LET h == "create_direct"
      c == r.body.customerDetails
  IN
  IF r.method = "OPTIONS" THEN Reply(NoLoc, Preflight(h))
  ELSE IF ~e.id \/ ~e.secret
    THEN Reply(NoLoc, Response(h, 500,
           [ success |-> FALSE,
             error |-> "Missing Cashfree credentials in environment variables",
             details |-> [hasClientId |-> e.id, hasClientSecret |-> e.secret] ]))
  ELSE IF r.body.kind = "invalid"
    THEN Reply(NoLoc, Response(h, 400,
           [ success |-> FALSE, error |-> "Invalid JSON in request body",
             details |-> JsonSyntaxError ]))
  ELSE IF r.body.kind = "null"
    THEN Reply(NoLoc, CreateDirectCaught("TypeError", DestructureError))
  ELSE IF FalsyVal(r.body.orderAmount) \/ ~c.present
    THEN Reply(NoLoc, Response(h, 400,
           [ success |-> FALSE,
             error |-> "Order amount and customer details are required",
             details |-> [ hasOrderAmount |-> ~FalsyVal(r.body.orderAmount),
                           hasCustomerDetails |-> c.present ] ]))
  ELSE IF Falsy(c.customerEmail) \/ Falsy(c.customerPhone) \/ Falsy(c.customerName)
    THEN Reply(NoLoc, Response(h, 400,
           [ success |-> FALSE,
             error |-> "Customer email, phone, and name are required",
             details |-> [ hasEmail |-> ~Falsy(c.customerEmail),
                           hasPhone |-> ~Falsy(c.customerPhone),
                           hasName |-> ~Falsy(c.customerName),
                           receivedData |-> c ] ]))
  ELSE Out("cd_fetch", [NoLoc EXCEPT !.orderId = "order_" \o g],
           << HttpCall("POST", ApiBase(e) \o "/pg/orders", "2023-08-01",
                       paymentPayload("order_" \o g, "customer_" \o g, r.body)) >>, <<>>)

\* a continuation in which a thrown fetch is caught by nobody
CreateDirectFetchedUncaught(l, u) ==
  LET h == "create_direct" IN
  IF u.kind = "throw" THEN Out("thrown", l, <<>>, <<>>)
  ELSE IF ~u.parses
    THEN Reply(l, CreateDirectCaught("Error",
                    "Invalid JSON response from Cashfree: " \o u.raw))
  ELSE IF ~Ok(u)
    THEN Reply(l, CreateDirectCaught("Error",
           "Cashfree API Error: " \o
             OrElse(u.data.message,
               OrElse(u.data.error_description,
                 "HTTP " \o ToString(u.status) \o ": " \o statusText(u.status)))))
  ELSE Reply(l, Response(h, 200,
         [ success |-> TRUE, orderId |-> u.data.order_id,
           paymentSessionId |-> u.data.payment_session_id,
           orderAmount |-> u.data.order_amount,
           orderCurrency |-> u.data.order_currency ]))

\* after fetch(apiUrl) settled with u
CreateDirectFetched(l, u) ==
  LET h == "create_direct" IN
  IF u.kind = "throw" THEN Reply(l, CreateDirectCaught("TypeError", NetworkError))
  ELSE IF ~u.parses
    THEN Reply(l, CreateDirectCaught("Error",
                    "Invalid JSON response from Cashfree: " \o u.raw))
  ELSE IF ~Ok(u)
    THEN Reply(l, CreateDirectCaught("Error",
           "Cashfree API Error: " \o
             OrElse(u.data.message,
               OrElse(u.data.error_description,
                 "HTTP " \o ToString(u.status) \o ": " \o statusText(u.status)))))
  ELSE Reply(l, Response(h, 200,
         [ success |-> TRUE, orderId |-> u.data.order_id,
           paymentSessionId |-> u.data.payment_session_id,
           orderAmount |-> u.data.order_amount,
           orderCurrency |-> u.data.order_currency ]))

CreateDirectBodies ==
  { BadBody, NullBody, EmptyObj,
    [EmptyObj EXCEPT !.orderAmount = Num(100)],
    [EmptyObj EXCEPT !.orderAmount = Num(0), !.customerDetails = FullCustomer],
    [EmptyObj EXCEPT !.orderAmount = Num(100),
                     !.customerDetails = Customer(Undefined, "9876543210", "", "Asha")],
    [EmptyObj EXCEPT !.orderAmount = Num(100), !.customerDetails = FullCustomer],
    [EmptyObj EXCEPT !.orderAmount = Str("100"), !.customerDetails = FullCustomer] }

CreateDirectRequests ==
  { Request(m, Route("pg-create-order"), NoQuery, b) :
      m \in {"OPTIONS", "POST"}, b \in CreateDirectBodies }

\* values Date.now() and Math.random() produce
Generated == {"1700000000000_k3j9x2a1b", "1700000000001_p0q8w7e6r"}

CreateDirectInputs ==
  Inputs(CreateDirectRequests,
         {r \in CreateDirectRequests :
            /\ r.method = "POST" /\ r.body.kind = "object"
            /\ r.body.orderAmount = Num(100) /\ r.body.customerDetails = FullCustomer},
         {r \in CreateDirectRequests : r.body.kind # "null"})

CreateDirectStart(i) ==
  \E in \in CreateDirectInputs, g \in Generated :
   LET r == in[1]  e == in[2] IN
    /\ Accept(i, "create_direct", r, e)
    /\ Apply(i, CreateDirectBegin(r, e, g))
    /\ UNCHANGED <<orders, orderItems, CashfreeConfig>>

CreateDirectFetch(i) ==
  /\ pc[i] = "cd_fetch"
  /\ \E u \in UpCreateOutcomes(Awaited(upCalls[i])) :
       /\ Apply(i, CreateDirectFetched(loc[i], u))
       /\ Settled(i, "gateway", u)
  /\ UNCHANGED <<unit, handler, req, env, orders, orderItems, CashfreeConfig>>

(***************************************************************************)
(* pg-fetch-order and pg-order-fetch-payments, direct HTTP (functions-2).  *)
(***************************************************************************)
\* the catch block
FetchCaught(h, message) ==
  Response(h, 500,
    [ success |-> FALSE,
      error |-> OrElse(message, IF h = "fetch_order_f2"
                                  THEN "Failed to verify payment status"
                                  ELSE "Failed to fetch payment details") ])

\* a URL that marks the lookups that follow the first one
apiUrlMarked(h, e, orderId) ==
  ApiBase(e) \o "/pg/orders/" \o orderId \o
    (IF h = "fetch_payments_f2" THEN "/payments" ELSE "") \o
    (IF prev.handler = h THEN "?again=1" ELSE "")

\* apiUrl: the order (or its payments) under the selected base URL
apiUrl(h, e, orderId) ==
  ApiBase(e) \o "/pg/orders/" \o orderId \o
    (IF h = "fetch_payments_f2" THEN "/payments" ELSE "")

\* a start that goes to the gateway without looking at the credentials
FetchBeginUnchecked(h, r, e) ==
  IF r.method = "OPTIONS" THEN Reply(NoLoc, Preflight(h))
  ELSE IF r.body.kind = "invalid" THEN Reply(NoLoc, FetchCaught(h, JsonSyntaxError))
  ELSE IF r.body.kind = "null" THEN Reply(NoLoc, FetchCaught(h, DestructureError))
  ELSE IF Falsy(r.body.orderId) THEN Reply(NoLoc, FetchCaught(h, "Order ID is required"))
  ELSE Out("f2_fetch", [NoLoc EXCEPT !.orderId = r.body.orderId],
           <<HttpCall("GET", apiUrl(h, e, r.body.orderId), "2023-08-01", NoBody)>>, <<>>)

\* the handler up to fetch(apiUrl)
FetchBegin(h, r, e) ==
  IF r.method = "OPTIONS" THEN Reply(NoLoc, Preflight(h))
  ELSE IF ~e.id \/ ~e.secret
    THEN Reply(NoLoc, FetchCaught(h, "Missing Cashfree credentials in environment variables"))
  ELSE IF r.body.kind = "invalid" THEN Reply(NoLoc, FetchCaught(h, JsonSyntaxError))
  ELSE IF r.body.kind = "null" THEN Reply(NoLoc, FetchCaught(h, DestructureError))
  ELSE IF Falsy(r.body.orderId) THEN Reply(NoLoc, FetchCaught(h, "Order ID is required"))
  ELSE Out("f2_fetch", [NoLoc EXCEPT !.orderId = r.body.orderId],
           <<HttpCall("GET", apiUrl(h, e, r.body.orderId), "2023-08-01", NoBody)>>, <<>>)

\* a test that takes every order that is not ACTIVE for paid
isNotActive(orderData) == orderData.order_status # "ACTIVE"

\* const isPaid = orderData.order_status === "PAID"
isPaid(orderData) == orderData.order_status = "PAID"

\* a continuation that answers a refusal by the gateway as a bad request
FetchFetchedBadRequest(h, l, u) ==
  IF u.kind = "throw" THEN Reply(l, FetchCaught(h, NetworkError))
  ELSE IF ~u.parses THEN Reply(l, FetchCaught(h, JsonSyntaxError))
  ELSE IF ~Ok(u)
    THEN Reply(l, Response(h, 400,
           [ success |-> FALSE,
             error |-> OrElse(u.data.message, "Failed to fetch order details") ]))
  ELSE IF h = "fetch_order_f2"
    THEN Reply(l, Response(h, 200,
           [ success |-> TRUE, isPaid |-> isPaid(u.data),
             paymentStatus |-> u.data.order_status, orderDetails |-> u.data ]))
  ELSE Reply(l, Response(h, 200, [success |-> TRUE, payments |-> u.data]))

\* after fetch(apiUrl) settled with u
FetchFetched(h, l, u) ==
  IF u.kind = "throw" THEN Reply(l, FetchCaught(h, NetworkError))
  ELSE IF ~u.parses THEN Reply(l, FetchCaught(h, JsonSyntaxError))
  ELSE IF ~Ok(u)
    THEN Reply(l, FetchCaught(h,
           OrElse(u.data.message, IF h = "fetch_order_f2"
                                    THEN "Failed to fetch order details"
                                    ELSE "Failed to fetch payment details")))
  ELSE IF h = "fetch_order_f2"
    THEN Reply(l, Response(h, 200,
           [ success |-> TRUE, isPaid |-> isPaid(u.data),
             paymentStatus |-> u.data.order_status, orderDetails |-> u.data ]))
  ELSE Reply(l, Response(h, 200, [success |-> TRUE, payments |-> u.data]))

FetchBodies ==
  { BadBody, NullBody, EmptyObj, [EmptyObj EXCEPT !.orderId = ""],
    [EmptyObj EXCEPT !.order_id = "order_b"], [EmptyObj EXCEPT !.orderId = "order_b"] }

FetchRequests(name) ==
  { Request(m, Route(name), NoQuery, b) :
      m \in {"OPTIONS", "POST", "PUT"}, b \in FetchBodies } \cup
  { Request("GET", Route(name) \o <<"order_p">>,
            [NoQuery EXCEPT !.order_id = "order_q"], BadBody) }

FetchInputs(name) ==
  Inputs(FetchRequests(name),
         {r \in FetchRequests(name) :
            r.method = "POST" /\ r.body.kind = "object" /\ r.body.orderId = "order_b"},
         {r \in FetchRequests(name) : r.body.kind # "null"})

FetchStart(i) ==
  \E h \in {"fetch_order_f2", "fetch_payments_f2"} :
    \E in \in FetchInputs(IF h = "fetch_order_f2" THEN "pg-fetch-order"
                          ELSE "pg-order-fetch-payments") :
     LET r == in[1]  e == in[2] IN
      /\ Accept(i, h, r, e)
      /\ Apply(i, FetchBegin(h, r, e))
      /\ UNCHANGED <<orders, orderItems, CashfreeConfig>>

FetchFetch(i) ==
  /\ pc[i] = "f2_fetch"
  /\ \E u \in UpFetchOutcomes(loc[i].orderId) :
       /\ Apply(i, FetchFetched(handler[i], loc[i], u))
       /\ Settled(i, "gateway", u)
  /\ UNCHANGED <<unit, handler, req, env, orders, orderItems, CashfreeConfig>>

(***************************************************************************)
(* pg-get-order.                                                           *)
(***************************************************************************)
\* the catch block
GetOrderCaught(message) ==
  json("get_order", [error |-> "Failed to get order status", details |-> message], 500)

\* a start that writes the row while the gateway is still being asked
GetOrderBeginEager(r, e) ==
  LET h == "get_order" IN
  IF r.method = "OPTIONS" THEN Reply(NoLoc, Preflight(h))
  ELSE IF r.body.kind = "invalid" THEN Reply(NoLoc, GetOrderCaught(JsonSyntaxError))
  ELSE IF r.body.kind = "null" THEN Reply(NoLoc, GetOrderCaught(DestructureError))
  ELSE IF Falsy(r.body.order_id)
    THEN Reply(NoLoc, json(h, [error |-> "Order ID is required"], 400))
  ELSE IF ~e.supa THEN Reply(NoLoc, GetOrderCaught(SupabaseUrlError))
  ELSE IF ~e.id \/ ~e.secret
    THEN Reply(NoLoc, GetOrderCaught("Cashfree credentials not configured"))
  ELSE Out("go_fetch", [NoLoc EXCEPT !.orderId = r.body.order_id],
           <<HttpCall("GET", cfUrl(e), "2025-01-01", NoBody)>>,
           <<DbCall("update", "orders", r.body.order_id, [status |-> "pending"])>>)

\* the handler up to fetch(cashfreeUrl)
GetOrderBegin(r, e) ==
  LET h == "get_order" IN
  IF r.method = "OPTIONS" THEN Reply(NoLoc, Preflight(h))
  ELSE IF r.body.kind = "invalid" THEN Reply(NoLoc, GetOrderCaught(JsonSyntaxError))
  ELSE IF r.body.kind = "null" THEN Reply(NoLoc, GetOrderCaught(DestructureError))
  ELSE IF Falsy(r.body.order_id)
    THEN Reply(NoLoc, json(h, [error |-> "Order ID is required"], 400))
  ELSE IF ~e.supa THEN Reply(NoLoc, GetOrderCaught(SupabaseUrlError))
  ELSE IF ~e.id \/ ~e.secret
    THEN Reply(NoLoc, GetOrderCaught("Cashfree credentials not configured"))
  ELSE Out("go_fetch", [NoLoc EXCEPT !.orderId = r.body.order_id],
           <<HttpCall("GET", cfUrl(e), "2025-01-01", NoBody)>>, <<>>)

\* after fetch(cashfreeUrl) settled with u
GetOrderFetched(l, u) ==
  IF u.kind = "throw" THEN Reply(l, GetOrderCaught(NetworkError))
  ELSE IF ~Ok(u)
    THEN Reply(l, GetOrderCaught(
           "Cashfree API error: " \o ToString(u.status) \o " " \o statusText(u.status)))
  ELSE IF ~u.parses THEN Reply(l, GetOrderCaught(JsonSyntaxError))
  ELSE IF u.data.order_status = Undefined THEN Reply(l, GetOrderCaught(ToLowerCaseError))
  ELSE Out("go_update", [l EXCEPT !.up = u], <<>>,
           <<DbCall("update", "orders", l.orderId,
                    [status |-> ToLowerCase(u.data.order_status)])>>)

\* a continuation that does not look at the update's error
GetOrderUpdatedUnchecked(l, updateError) ==
  Reply(l, json("get_order",
         [ success |-> TRUE, order_id |-> l.up.data.order_id,
           status |-> l.up.data.order_status, amount |-> l.up.data.order_amount,
           currency |-> l.up.data.order_currency ], 200))

\* after the update returned {error: updateError}
GetOrderUpdated(l, updateError) ==
  IF updateError THEN Reply(l, GetOrderCaught(DatastoreError))
  ELSE Reply(l, json("get_order",
         [ success |-> TRUE, order_id |-> l.up.data.order_id,
           status |-> l.up.data.order_status, amount |-> l.up.data.order_amount,
           currency |-> l.up.data.order_currency ], 200))

\* the order a gateway call that names no order is answered with
GatewayOrder == "order_gw"

GetOrderRequests ==
  { Request(m, Route("pg-get-order"), NoQuery, b) :
      m \in {"OPTIONS", "POST"},
      b \in { BadBody, NullBody, EmptyObj, [EmptyObj EXCEPT !.orderId = "ord_1"],
              [EmptyObj EXCEPT !.order_id = "ord_1"],
              [EmptyObj EXCEPT !.order_id = "ord_9"] } }

GetOrderInputs ==
  Inputs(GetOrderRequests,
         {r \in GetOrderRequests :
            r.method = "POST" /\ r.body.kind = "object" /\ r.body.order_id = "ord_1"},
         {r \in GetOrderRequests : r.body.kind # "null"})

GetOrderStart(i) ==
  \E in \in GetOrderInputs :
   LET r == in[1]  e == in[2] IN
    /\ Accept(i, "get_order", r, e)
    /\ Apply(i, GetOrderBegin(r, e))
    /\ UNCHANGED <<orders, orderItems, CashfreeConfig>>

GetOrderFetch(i) ==
  /\ pc[i] = "go_fetch"
  /\ \E u \in UpFetchOutcomes(GatewayOrder) :
       /\ Apply(i, GetOrderFetched(loc[i], u))
       /\ Settled(i, "gateway", u)
  /\ UNCHANGED <<unit, handler, req, env, orders, orderItems, CashfreeConfig>>

GetOrderUpdate(i) ==
  /\ pc[i] = "go_update"
  /\ \E updateError \in BOOLEAN :
       /\ orders' = IF updateError THEN orders
                    ELSE Update(orders, Awaited(dbCalls[i]))
       /\ Apply(i, GetOrderUpdated(loc[i], updateError))
       /\ Settled(i, "datastore", updateError)
  /\ UNCHANGED <<unit, handler, req, env, orderItems, CashfreeConfig>>

(***************************************************************************)
(* Identifier resolution of the handlers that read the URL.                *)
(***************************************************************************)
\* url.pathname.split("/").filter(Boolean)
pathParts(path) == SelectSeq(path, LAMBDA part : part # "")

\* Array.prototype.findIndex, 1-based; 0 where JavaScript answers -1
findIndex(parts, name) ==
  IF \E k \in DOMAIN parts : parts[k] = name
    THEN CHOOSE k \in DOMAIN parts :
           parts[k] = name /\ \A j \in DOMAIN parts : parts[j] = name => k <= j
    ELSE 0

\* parts[k], undefined beyond the end
At(parts, k) == IF k \in DOMAIN parts THEN parts[k] ELSE Undefined

\* a resolution that asks the query string before the path
ResolveOrderIdQueryFirst(r, name) ==
  LET parts == pathParts(r.path)
      functionIndex == findIndex(parts, name)
      fromQuery == OrElse(r.query.order_id, "")
  IN IF ~Falsy(fromQuery) THEN fromQuery
     ELSE IF functionIndex # 0 THEN OrElse(At(parts, functionIndex + 1), "")
     ELSE ""

\* the orderId of the fetch-order handlers: path segment, then query parameter
ResolveOrderId(r, name) ==
  LET parts == pathParts(r.path)
      functionIndex == findIndex(parts, name)
      fromPath == IF functionIndex # 0 /\ ~Falsy(At(parts, functionIndex + 1))
                    THEN At(parts, functionIndex + 1) ELSE ""
  IN IF Falsy(fromPath) THEN OrElse(r.query.order_id, "") ELSE fromPath

\* orderId and cfPaymentId of the fetch-payment handler
ResolvePaymentIds(r, name) ==
  LET parts == pathParts(r.path)
      functionIndex == findIndex(parts, name)
      pathOrder == IF functionIndex # 0
                     THEN OrElse(At(parts, functionIndex + 1), "") ELSE ""
      pathPayment == IF functionIndex # 0
                       THEN OrElse(At(parts, functionIndex + 2), "") ELSE ""
  IN [ orderId |-> IF Falsy(pathOrder) THEN OrElse(r.query.order_id, "") ELSE pathOrder,
       cfPaymentId |-> IF Falsy(pathPayment) THEN OrElse(r.query.cf_payment_id, "")
                       ELSE pathPayment ]

\* requests that carry identifiers on every channel, and on none
UrlRequests(name) ==
  { Request(m, Route(name) \o t[1], t[2], t[3]) :
      m \in {"OPTIONS", "GET", "POST"},
      t \in { <<<<>>, NoQuery, BadBody>>,
              <<<<"order_p">>, NoQuery, BadBody>>,
              <<<<>>, [NoQuery EXCEPT !.order_id = "order_q"], BadBody>>,
              <<<<>>, [NoQuery EXCEPT !.order_id = ""], BadBody>>,
              <<<<"order_p">>, [NoQuery EXCEPT !.order_id = "order_q"], BadBody>>,
              <<<<"order_p", "pay_p">>, NoQuery, BadBody>>,
              <<<<"order_p">>, [NoQuery EXCEPT !.cf_payment_id = "pay_q"], BadBody>>,
              <<<<>>, [order_id |-> "order_q", cf_payment_id |-> "pay_q"], BadBody>>,
              <<<<>>, NoQuery, [EmptyObj EXCEPT !.order_id = "order_b"]>> } } \cup
  { Request("GET", <<"", "fn", "order_p", "pay_p">>,
            [NoQuery EXCEPT !.order_id = "order_q"], BadBody) }

\* the samples driven under every configuration
UrlReaching(name) ==
  {r \in UrlRequests(name) :
     r.method = "GET" /\ r.path = Route(name) \o <<"order_p", "pay_p">>}
UrlProbes(name) ==
  {r \in UrlRequests(name) :
     r.query = NoQuery /\ r.body = BadBody /\ Len(r.path) # Len(Route(name)) + 1}

(***************************************************************************)
(* pg-fetch-order served by direct HTTP, with URL identifiers.             *)
(***************************************************************************)
\* the catch block of the SDK-era handlers: error instanceof Error ? message : ...
Caught(h, isError, message) ==
  Response(h, 500,
    [success |-> FALSE, error |-> IF isError THEN message ELSE "Internal server error"])

\* environment === 'PRODUCTION' ? ... with SANDBOX when unset
Environment(e) ==
  IF OrElse(e.flag, "SANDBOX") = "PRODUCTION" THEN "PRODUCTION" ELSE "SANDBOX"
baseUrl(e) == IF Environment(e) = "PRODUCTION" THEN ProductionUrl ELSE SandboxUrl

MethodNotAllowed(h) ==
  Response(h, 405,
    [success |-> FALSE, error |-> "Method not allowed. Only GET requests are supported."])

\* the handler up to fetch(apiUrl)
HttpFetchBegin(r, e) ==
  LET h == "fetch_order_http"
      orderId == ResolveOrderId(r, "pg-fetch-order")
  IN
  IF r.method = "OPTIONS" THEN Reply(NoLoc, Preflight(h))
  ELSE IF ~e.id \/ ~e.secret
    THEN Reply(NoLoc, Caught(h, TRUE, "Missing Cashfree credentials in environment variables"))
  ELSE IF r.method # "GET" THEN Reply(NoLoc, MethodNotAllowed(h))
  ELSE IF Falsy(orderId)
    THEN Reply(NoLoc, Response(h, 400,
           [success |-> FALSE, error |-> "Missing order_id. Provide it as path parameter (/pg-fetch-order/order_123) or query parameter (?order_id=order_123)"]))
  ELSE Out("fh_fetch", [NoLoc EXCEPT !.orderId = orderId],
           << HttpCall("GET", baseUrl(e) \o "/pg/orders/" \o orderId,
                       "2023-08-01", NoBody) >>, <<>>)

\* a continuation that relays the status of a refusal by the gateway
HttpFetchFetchedRelayed(l, u) ==
  LET h == "fetch_order_http" IN
  IF u.kind = "throw" THEN Reply(l, Caught(h, TRUE, NetworkError))
  ELSE IF ~Ok(u)
    THEN Reply(l, Response(h, u.status,
           [ success |-> FALSE,
             error |-> OrElse(IF u.parses THEN u.data.message ELSE Undefined,
                              "Unknown error") ]))
  ELSE IF ~u.parses THEN Reply(l, Caught(h, TRUE, JsonSyntaxError))
  ELSE Reply(l, Response(h, 200,
         [success |-> TRUE, data |-> u.data, message |-> "Order fetched successfully"]))

\* after fetch(apiUrl) settled with u
HttpFetchFetched(l, u) ==
  LET h == "fetch_order_http" IN
  IF u.kind = "throw" THEN Reply(l, Caught(h, TRUE, NetworkError))
  ELSE IF ~Ok(u)
    THEN Reply(l, Caught(h, TRUE,
           "Cashfree API error: " \o ToString(u.status) \o " - " \o
             OrElse(IF u.parses THEN u.data.message ELSE Undefined, "Unknown error")))
  ELSE IF ~u.parses THEN Reply(l, Caught(h, TRUE, JsonSyntaxError))
  ELSE Reply(l, Response(h, 200,
         [success |-> TRUE, data |-> u.data, message |-> "Order fetched successfully"]))

HttpFetchStart(i) ==
  \E in \in Inputs(UrlRequests("pg-fetch-order"), UrlReaching("pg-fetch-order"),
                   UrlProbes("pg-fetch-order")) :
   LET r == in[1]  e == in[2] IN
    /\ Accept(i, "fetch_order_http", r, e)
    /\ Apply(i, HttpFetchBegin(r, e))
    /\ UNCHANGED <<orders, orderItems, CashfreeConfig>>

HttpFetchFetch(i) ==
  /\ pc[i] = "fh_fetch"
  /\ \E u \in UpFetchOutcomes(loc[i].orderId) :
       /\ Apply(i, HttpFetchFetched(loc[i], u))
       /\ Settled(i, "gateway", u)
  /\ UNCHANGED <<unit, handler, req, env, orders, orderItems, CashfreeConfig>>

(***************************************************************************)
(* The handlers that call the gateway through its SDK: pg-fetch-order,     *)
(* pg-order-fetch-payment and the creation handler of the README.          *)
(***************************************************************************)
\* how a call of the SDK settles
SdkResolve(data) == [kind |-> "resolve", data |-> data, isError |-> FALSE, message |-> Undefined]
SdkReject(isError, message) ==
  [kind |-> "reject", data |-> Undefined, isError |-> isError, message |-> message]
SdkOutcomes ==
  { SdkResolve("order_entity"), SdkResolve(Undefined),
    SdkReject(TRUE, "Request failed with status code 404"),
    SdkReject(FALSE, Undefined) }

\* the statics of the Cashfree class after setup, written when the imported
\* class cannot be constructed with (environment, id, secret)
Configure(cfg, r, e) ==
  IF r.method # "OPTIONS" /\ e.sdk = "v4" /\ e.id /\ e.secret
    THEN [ XClientId |-> "<client-id>", XClientSecret |-> "<client-secret>",
           XEnvironment |-> Environment(e) ]
    ELSE cfg

\* the steps every SDK handler takes before it looks at the method
SdkSetup(h, r, e, dispatch) ==
  IF r.method = "OPTIONS" THEN Reply(NoLoc, Preflight(h))
  ELSE IF e.sdk = "missing"
    THEN Reply(NoLoc, Caught(h, TRUE, "Module not found \"npm:cashfree-pg\""))
  ELSE IF ~e.id \/ ~e.secret
    THEN Reply(NoLoc, Caught(h, TRUE, "Missing Cashfree credentials in environment variables"))
  ELSE dispatch

\* pg-fetch-order: GET alone, the order id from the path or the query
SdkFetchOrderBegin(r, e) ==
  LET h == "fetch_order_sdk"
      orderId == ResolveOrderId(r, "pg-fetch-order")
  IN SdkSetup(h, r, e,
       IF r.method # "GET" THEN Reply(NoLoc, MethodNotAllowed(h))
       ELSE IF Falsy(orderId)
         THEN Reply(NoLoc, Response(h, 400,
                [success |-> FALSE, error |-> "Missing order_id. Provide it as path parameter (/pg-fetch-order/order_123) or query parameter (?order_id=order_123)"]))
       ELSE Out("sdk_first", [NoLoc EXCEPT !.orderId = orderId],
                << SdkCall("PGFetchOrder", Undefined,
                           [order_id |-> orderId, cf_payment_id |-> Undefined]) >>, <<>>))

\* pg-order-fetch-payment: GET alone, both identifiers required
SdkFetchPaymentBegin(r, e) ==
  LET h == "fetch_payment_sdk"
      ids == ResolvePaymentIds(r, "pg-order-fetch-payment")
  IN SdkSetup(h, r, e,
       IF r.method # "GET" THEN Reply(NoLoc, MethodNotAllowed(h))
       ELSE IF Falsy(ids.orderId) \/ Falsy(ids.cfPaymentId)
         THEN Reply(NoLoc, Response(h, 400,
                [success |-> FALSE, error |-> "Missing required parameters. Provide order_id and cf_payment_id as path parameters (/pg-order-fetch-payment/order_123/payment_456) or query parameters (?order_id=order_123&cf_payment_id=payment_456)"]))
       ELSE Out("sdk_first",
                [NoLoc EXCEPT !.orderId = ids.orderId, !.cfPaymentId = ids.cfPaymentId],
                << SdkCall("PGOrderFetchPayment", Undefined,
                           [order_id |-> ids.orderId, cf_payment_id |-> ids.cfPaymentId]) >>,
                <<>>))

\* the message of a success response, by the SDK method that produced it
SdkMessage(method) ==
  CASE method = "PGCreateOrder" -> "Order created successfully"
    [] method = "PGFetchOrder" -> "Order fetched successfully"
    [] OTHER -> "Payment details fetched successfully"

\* after the call in the instance style settled with o
SdkFirst(h, l, call, o) ==
  IF o.kind = "resolve"
    THEN Reply(l, Response(h, 200,
           [success |-> TRUE, data |-> o.data, message |-> SdkMessage(call.method)]))
    ELSE Out("sdk_second", l, << [call EXCEPT !.version = "2023-08-01"] >>, <<>>)

\* after the call in the versioned style settled with o
SdkSecond(h, l, call, o) ==
  IF o.kind = "resolve"
    THEN Reply(l, Response(h, 200,
           [success |-> TRUE, data |-> o.data, message |-> SdkMessage(call.method)]))
    ELSE Reply(l, Caught(h, o.isError, o.message))

\* order_amount.toString()
toString(v) == IF v.t = "number" THEN Str(ToString(v.n)) ELSE v

\* the orderRequest the creation handler hands to PGCreateOrder
orderRequest(r) ==
  LET b == r.body IN
  [ order_amount |-> parseFloat(toString(b.order_amount)),
    order_currency |-> OrElse(b.order_currency, "INR"),
    order_id |-> b.order_id,
    customer_details |->
      [ customer_id |-> b.customer_details.customer_id,
        customer_phone |-> b.customer_details.customer_phone,
        customer_email |-> OrElse(b.customer_details.customer_email, Undefined),
        customer_name |-> OrElse(b.customer_details.customer_name, Undefined) ],
    order_meta |->
      [ return_url |-> OrElse(b.order_meta.return_url,
                              r.origin \o "/payment-success?order_id={order_id}"),
        notify_url |-> OrElse(b.order_meta.notify_url, Undefined),
        payment_methods |-> OrElse(b.order_meta.payment_methods, Undefined) ] ]

\* the creation handler of the README: POST creates, GET fetches by query
SdkCreateBegin(r, e) ==
  LET h == "create_sdk"
      b == r.body
      orderId == r.query.order_id
  IN SdkSetup(h, r, e,
       IF r.method = "POST" THEN
         IF b.kind = "invalid" THEN Reply(NoLoc, Caught(h, TRUE, JsonSyntaxError))
         ELSE IF b.kind = "null" THEN Reply(NoLoc, Caught(h, TRUE, DestructureError))
         ELSE IF FalsyVal(b.order_amount) \/ Falsy(b.order_currency)
                 \/ Falsy(b.order_id) \/ ~b.customer_details.present
           THEN Reply(NoLoc, Response(h, 400,
                  [error |-> "Missing required fields: order_amount, order_currency, order_id, customer_details"]))
         ELSE Out("sdk_first", [NoLoc EXCEPT !.orderId = b.order_id],
                  << SdkCall("PGCreateOrder", Undefined, orderRequest(r)) >>, <<>>)
       ELSE IF r.method = "GET" THEN
         IF Falsy(orderId)
           THEN Reply(NoLoc, Response(h, 400, [error |-> "Missing order_id parameter"]))
           ELSE Out("sdk_first", [NoLoc EXCEPT !.orderId = orderId],
                    << SdkCall("PGFetchOrder", Undefined,
                               [order_id |-> orderId, cf_payment_id |-> Undefined]) >>, <<>>)
       ELSE Reply(NoLoc, Response(h, 405, [error |-> "Method not allowed"])))

SdkCustomer ==
  [ present |-> TRUE, customer_id |-> "cust_1", customer_phone |-> "9876543210",
    customer_email |-> "", customer_name |-> "Asha" ]
SdkOrder ==
  [EmptyObj EXCEPT !.order_amount = Str("100"), !.order_currency = "INR",
                   !.order_id = "order_b", !.customer_details = SdkCustomer]

SdkCreateRequests ==
  { Request(m, Route("pg-create-order"), NoQuery, b) :
      m \in {"OPTIONS", "POST", "PUT"},
      b \in { BadBody, NullBody, EmptyObj, SdkOrder,
              [SdkOrder EXCEPT !.order_amount = Num(0)],
              [SdkOrder EXCEPT !.order_id = ""],
              [SdkOrder EXCEPT !.order_meta =
                 [NoOrderMeta EXCEPT !.present = TRUE, !.return_url = "https://shop/r"]] } }
  \cup { Request("GET", Route("pg-create-order"), q, BadBody) :
           q \in {NoQuery, [NoQuery EXCEPT !.order_id = "order_q"]} }

\* every request under the default configuration and further samples
SdkInputs(all, reaching, probes) ==
  Inputs(all, reaching, probes) \cup (reaching \X V4Envs) \cup (probes \X NoSdkEnvs)

SdkFetchOrderStart(i) ==
  \E in \in SdkInputs(UrlRequests("pg-fetch-order"), UrlReaching("pg-fetch-order"),
                      UrlProbes("pg-fetch-order")) :
   LET r == in[1]  e == in[2] IN
    /\ Accept(i, "fetch_order_sdk", r, e)
    /\ Apply(i, SdkFetchOrderBegin(r, e))
    /\ CashfreeConfig' = Configure(CashfreeConfig, r, e)
    /\ UNCHANGED <<orders, orderItems>>

SdkFetchPaymentStart(i) ==
  \E in \in SdkInputs(UrlRequests("pg-order-fetch-payment"),
                      UrlReaching("pg-order-fetch-payment"),
                      UrlProbes("pg-order-fetch-payment")) :
   LET r == in[1]  e == in[2] IN
    /\ Accept(i, "fetch_payment_sdk", r, e)
    /\ Apply(i, SdkFetchPaymentBegin(r, e))
    /\ CashfreeConfig' = Configure(CashfreeConfig, r, e)
    /\ UNCHANGED <<orders, orderItems>>

SdkCreateStart(i) ==
  \E in \in SdkInputs(SdkCreateRequests,
                      {r \in SdkCreateRequests : r.method = "POST" /\ r.body = SdkOrder},
                      {r \in SdkCreateRequests : r.body = EmptyObj}) :
   LET r == in[1]  e == in[2] IN
    /\ Accept(i, "create_sdk", r, e)
    /\ Apply(i, SdkCreateBegin(r, e))
    /\ CashfreeConfig' = Configure(CashfreeConfig, r, e)
    /\ UNCHANGED <<orders, orderItems>>

\* the instance-style call settles
SdkCallFirst(i) ==
  /\ pc[i] = "sdk_first"
  /\ \E o \in SdkOutcomes :
       /\ Apply(i, SdkFirst(handler[i], loc[i], Awaited(upCalls[i]), o))
       /\ Settled(i, "gateway", o)
  /\ UNCHANGED <<unit, handler, req, env, orders, orderItems, CashfreeConfig>>

\* the versioned call settles
SdkCallSecond(i) ==
  /\ pc[i] = "sdk_second"
  /\ \E o \in SdkOutcomes :
       /\ Apply(i, SdkSecond(handler[i], loc[i], Awaited(upCalls[i]), o))
       /\ Settled(i, "gateway", o)
  /\ UNCHANGED <<unit, handler, req, env, orders, orderItems, CashfreeConfig>>

(***************************************************************************)
(* The platform.                                                           *)
(***************************************************************************)
\* the slot is cleared for the next request
Release(i) ==
  /\ handler' = [handler EXCEPT ![i] = "none"]
  /\ req' = [req EXCEPT ![i] = NoReq]
  /\ env' = [env EXCEPT ![i] = NoEnv]
  /\ pc' = [pc EXCEPT ![i] = "idle"]
  /\ loc' = [loc EXCEPT ![i] = NoLoc]
  /\ resp' = [resp EXCEPT ![i] = NoResp]
  /\ upCalls' = [upCalls EXCEPT ![i] = <<>>]
  /\ dbCalls' = [dbCalls EXCEPT ![i] = <<>>]
  /\ upResults' = [upResults EXCEPT ![i] = <<>>]
  /\ dbResults' = [dbResults EXCEPT ![i] = <<>>]
  /\ UNCHANGED <<unit, orders, orderItems, gateway, CashfreeConfig>>

\* the response has been sent; the slot serves the next request
Finish(i) ==
  /\ pc[i] = "done"
  /\ Release(i)
  /\ UNCHANGED prev

\* Spec serves one invocation at a time
OneAtATime(i) == \A j \in Procs \ {i} : pc[j] = "idle"

Next ==
  \E i \in Procs :
    \/ OneAtATime(i) /\ CreateLedgerStart(i)
    \/ CreateLedgerInsert(i)
    \/ CreateLedgerItems(i)
    \/ CreateLedgerFetch(i)
    \/ CreateLedgerMarkFailed(i)
    \/ CreateLedgerUpdate(i)
    \/ OneAtATime(i) /\ CreateDirectStart(i)
    \/ CreateDirectFetch(i)
    \/ OneAtATime(i) /\ FetchStart(i)
    \/ FetchFetch(i)
    \/ OneAtATime(i) /\ GetOrderStart(i)
    \/ GetOrderFetch(i)
    \/ GetOrderUpdate(i)
    \/ OneAtATime(i) /\ HttpFetchStart(i)
    \/ HttpFetchFetch(i)
    \/ OneAtATime(i) /\ SdkFetchOrderStart(i)
    \/ OneAtATime(i) /\ SdkFetchPaymentStart(i)
    \/ OneAtATime(i) /\ SdkCreateStart(i)
    \/ SdkCallFirst(i)
    \/ SdkCallSecond(i)
    \/ Finish(i)

Spec == Init /\ [][Next]_vars

(***************************************************************************)
(* A client that sends a lookup request and then sends the same request    *)
(* again, under the same configuration; the exchange of the invocation     *)
(* served last is kept for comparison with the next one.                   *)
(***************************************************************************)
\* the request accepted in this step repeats the one served last
Repeated(i) ==
  prev.handler # "none" =>
    handler'[i] = prev.handler /\ req'[i] = prev.req /\ env'[i] = prev.env

\* the response has been sent and the exchange is remembered
FinishObserved(i) ==
  /\ pc[i] = "done"
  /\ Release(i)
  /\ prev' = [ handler |-> handler[i], req |-> req[i], env |-> env[i],
               resp |-> resp[i], upCalls |-> upCalls[i], upResults |-> upResults[i] ]

NextRepeat ==
  \E i \in Procs :
    \/ OneAtATime(i) /\ FetchStart(i) /\ Repeated(i)
    \/ FetchFetch(i)
    \/ OneAtATime(i) /\ HttpFetchStart(i) /\ Repeated(i)
    \/ HttpFetchFetch(i)
    \/ OneAtATime(i) /\ SdkFetchOrderStart(i) /\ Repeated(i)
    \/ OneAtATime(i) /\ SdkFetchPaymentStart(i) /\ Repeated(i)
    \/ SdkCallFirst(i)
    \/ SdkCallSecond(i)
    \/ FinishObserved(i)

SpecRepeat == Init /\ [][NextRepeat]_vars


(***************************************************************************)
(* The platform running invocations side by side: creation requests that   *)
(* pass validation under the default configuration, one per slot, with the *)
(* steps of the invocations interleaved.                                   *)
(***************************************************************************)
\* the request accepted in this step reaches the handler's first call
Admitted(i) == env'[i] = DefaultEnv /\ pc'[i] # "done"

\* ... and is a creation request with its customer block
ValidRequest(i) == Admitted(i) /\ req'[i].body.customerDetails.present

NextConc ==
  \E i \in Procs :
    \/ CreateLedgerStart(i) /\ ValidRequest(i)
    \/ CreateLedgerInsert(i)
    \/ CreateLedgerItems(i)
    \/ CreateLedgerFetch(i)
    \/ CreateLedgerMarkFailed(i)
    \/ CreateLedgerUpdate(i)
    \/ CreateDirectStart(i) /\ ValidRequest(i)
    \/ CreateDirectFetch(i)

SpecConc == Init /\ [][NextConc]_vars

(***************************************************************************)
(* Lookups of one order side by side: an order is created, then            *)
(* pg-get-order invocations run with their steps interleaved while the     *)
(* gateway's order moves from ACTIVE to PAID and never back.               *)
(***************************************************************************)
\* the payment is made: the gateway's order becomes PAID
GatewayAdvance ==
  /\ gateway = "ACTIVE"
  /\ gateway' = "PAID"
  /\ UNCHANGED << unit, handler, req, env, pc, loc, resp, upCalls, dbCalls, upResults,
                  dbResults, prev, orders, orderItems, CashfreeConfig >>

\* the order the gateway reported in this step has the status it holds
Forward(i) ==
  LET u == Awaited(upResults'[i])
  IN u.kind = "resp" /\ Ok(u) /\ u.parses /\ u.data.order_status # Undefined =>
       u.data.order_status = gateway

\* no creation is being served
NoCreation == \A j \in Procs : handler[j] # "create_ledger"

NextRace ==
  \/ \E i \in Procs :
       \/ OneAtATime(i) /\ orders = <<>> /\ CreateLedgerStart(i) /\ ValidRequest(i)
       \/ CreateLedgerInsert(i)
       \/ CreateLedgerItems(i)
       \/ CreateLedgerFetch(i)
       \/ CreateLedgerMarkFailed(i)
       \/ CreateLedgerUpdate(i)
       \/ NoCreation /\ GetOrderStart(i) /\ Admitted(i)
       \/ GetOrderFetch(i) /\ Forward(i)
       \/ GetOrderUpdate(i)
       \/ Finish(i)
  \/ GatewayAdvance

SpecRace == Init /\ [][NextRace]_vars

(***************************************************************************)
(* One invocation whose awaited calls all settle: every datastore call and *)
(* every gateway call eventually returns or throws.                        *)
(***************************************************************************)
\* the call invocation i awaits settles and the handler runs on
Settle(i) ==
  \/ CreateLedgerInsert(i)
  \/ CreateLedgerItems(i)
  \/ CreateLedgerFetch(i)
  \/ CreateLedgerMarkFailed(i)
  \/ CreateLedgerUpdate(i)
  \/ CreateDirectFetch(i)
  \/ FetchFetch(i)
  \/ GetOrderFetch(i)
  \/ GetOrderUpdate(i)
  \/ HttpFetchFetch(i)
  \/ SdkCallFirst(i)
  \/ SdkCallSecond(i)

NextLive ==
  \E i \in Procs :
    \/ OneAtATime(i) /\ CreateLedgerStart(i)
    \/ OneAtATime(i) /\ CreateDirectStart(i)
    \/ OneAtATime(i) /\ FetchStart(i)
    \/ OneAtATime(i) /\ GetOrderStart(i)
    \/ OneAtATime(i) /\ HttpFetchStart(i)
    \/ OneAtATime(i) /\ SdkFetchOrderStart(i)
    \/ OneAtATime(i) /\ SdkFetchPaymentStart(i)
    \/ OneAtATime(i) /\ SdkCreateStart(i)
    \/ Settle(i)

SpecLive == Init /\ [][NextLive]_vars /\ \A i \in Procs : WF_vars(Settle(i))

(***************************************************************************)
(* Vocabulary of the properties.                                           *)
(***************************************************************************)
\* invocation i has returned its response
Done(i) == pc[i] = "done"

\* the response of i says success = v
Success(i, v) == "success" \in DOMAIN resp[i].body /\ resp[i].body.success = v

\* the response of i carries an error text
HasError(i) == "error" \in DOMAIN resp[i].body

\* the status of the ledger row with this id ("none" when there is no such row)
RowStatus(id) ==
  IF \E k \in 1..Len(orders) : orders[k].id = id
    THEN orders[CHOOSE k \in 1..Len(orders) : orders[k].id = id].status
    ELSE "none"

\* i ran the ledger-backed creation handler on a creation request with a
\* positive numeric amount, currency INR and a complete customer block
ValidCreation(i) ==
  /\ handler[i] = "create_ledger"
  /\ req[i].method = "POST"
  /\ req[i].body.kind = "object"
  /\ req[i].body.orderAmount.t = "number"
  /\ req[i].body.orderAmount.n > 0
  /\ req[i].body.orderCurrency = "INR"
  /\ req[i].body.customerDetails.present
  /\ ~Falsy(req[i].body.customerDetails.customerId)
  /\ ~Falsy(req[i].body.customerDetails.customerPhone)
  /\ ~Falsy(req[i].body.customerDetails.customerEmail)
  /\ ~Falsy(req[i].body.customerDetails.customerName)

\* the gateway answered the (single) call of i with a 2xx status
UpstreamSucceeded(i) ==
  /\ Len(upResults[i]) = 1
  /\ upResults[i][1].kind = "resp"
  /\ Ok(upResults[i][1])

\* the 200 response of a creation: generated id and the session of the gateway
CreatedResponse(i) ==
  /\ resp[i].status = 200
  /\ Success(i, TRUE)
  /\ resp[i].body.order_id = loc[i].orderId
  /\ loc[i].orderId = dbCalls[i][Len(dbCalls[i])].id
  /\ resp[i].body.payment_session_id =
       Field(cfData(upResults[i][1]), "payment_session_id")

(***************************************************************************)
(* C1.  Ledger-backed creation, valid request, gateway answers 2xx.        *)
(***************************************************************************)
\* C1 as stated: for every valid creation request whose gateway call
\* succeeds, the response is 200 with the generated order id and the
\* gateway's session id, and the ledger row has status "created" when the
\* response is returned.
C1_RowCreatedAtResponse ==
  \A i \in Procs :
    Done(i) /\ ValidCreation(i) /\ UpstreamSucceeded(i) =>
      CreatedResponse(i) /\ RowStatus(loc[i].orderId) = "created"

\* C1 amended: the response is as stated; the ledger row has status
\* "created" when the update of the row reported no error, and is still
\* "pending" when that update reported an error.
C1_RowCreatedUnlessUpdateFails ==
  \A i \in Procs :
    Done(i) /\ ValidCreation(i) /\ UpstreamSucceeded(i) =>
      /\ CreatedResponse(i)
      /\ RowStatus(loc[i].orderId) =
           IF dbResults[i][Len(dbResults[i])] THEN "pending" ELSE "created"

\* a valid creation has been answered 200, session included, row "created"
C1_Witness ==
  \E i \in Procs :
    /\ Done(i) /\ ValidCreation(i) /\ UpstreamSucceeded(i)
    /\ resp[i].status = 200
    /\ resp[i].body.payment_session_id = "session_1"
    /\ RowStatus(loc[i].orderId) = "created"

(***************************************************************************)
(* C2.  A required identifier that is empty on every channel.              *)
(***************************************************************************)
\* the methods handler h is documented to serve
Supported(h) ==
  CASE h \in {"fetch_order_sdk", "fetch_payment_sdk", "fetch_order_http"} -> {"GET"}
    [] h = "create_sdk" -> {"GET", "POST"}
    [] OTHER -> {"POST"}

\* the configuration handler h reads is complete
Configured(h, e) ==
  /\ e.id /\ e.secret
  /\ h \in {"create_ledger", "get_order"} => e.supa
  /\ h \in {"create_sdk", "fetch_order_sdk", "fetch_payment_sdk"} => e.sdk # "missing"

\* the request of i names no order (or no payment) on any channel handler i reads
IdentifierMissing(i) ==
  LET h == handler[i]
      r == req[i]
  IN CASE h \in {"fetch_order_f2", "fetch_payments_f2"} ->
            r.body.kind = "object" /\ Falsy(r.body.orderId)
       [] h = "get_order" -> r.body.kind = "object" /\ Falsy(r.body.order_id)
       [] h \in {"fetch_order_sdk", "fetch_order_http"} ->
            Falsy(ResolveOrderId(r, "pg-fetch-order"))
       [] h = "fetch_payment_sdk" ->
            \/ Falsy(ResolvePaymentIds(r, "pg-order-fetch-payment").orderId)
            \/ Falsy(ResolvePaymentIds(r, "pg-order-fetch-payment").cfPaymentId)
       [] h = "create_sdk" ->
            IF r.method = "GET" THEN Falsy(r.query.order_id)
            ELSE r.body.kind = "object" /\ Falsy(r.body.order_id)
       [] OTHER -> FALSE

\* C2 as stated, read in the handlers' favour (configuration complete, method
\* served, body a JSON object): a non-OPTIONS request whose required
\* identifier is empty on every accepted channel is answered with status 400
\* and success = false.
C2_MissingIdentifierIs400 ==
  \A i \in Procs :
    /\ Done(i) /\ req[i].method \in Supported(handler[i])
    /\ Configured(handler[i], env[i]) /\ IdentifierMissing(i)
    => resp[i].status = 400 /\ Success(i, FALSE)

(***************************************************************************)
(* C3.  The gateway answers with a non-2xx status.                         *)
(***************************************************************************)
\* the gateway answered the HTTP call of i with a status outside 200..299
UpstreamRefused(i) ==
  /\ Len(upResults[i]) = 1
  /\ upResults[i][1].kind = "resp"
  /\ ~Ok(upResults[i][1])

\* C3 as stated, read in the handlers' favour (the message is compared only
\* when the body parses and carries one; any error text counts as the generic
\* one when the body does not parse): after a non-2xx answer the response has
\* status 500, success = false, and the gateway's message as its error text.
C3_UpstreamMessageRelayed ==
  \A i \in Procs :
    Done(i) /\ UpstreamRefused(i) =>
      /\ resp[i].status = 500
      /\ Success(i, FALSE)
      /\ HasError(i)
      /\ LET u == upResults[i][1] IN
           u.parses /\ ~Falsy(u.data.message) => resp[i].body.error = u.data.message

(***************************************************************************)
(* C4.  Ledger-backed creation: the gateway call fails after the insert.   *)
(***************************************************************************)
\* the gateway call of i threw or was answered with a non-2xx status
UpstreamFailed(i) ==
  /\ Len(upResults[i]) = 1
  /\ upResults[i][1].kind = "throw" \/ ~Ok(upResults[i][1])

\* i has issued the update of its row to status "failed"
MarkedFailed(i) ==
  \E k \in 1..Len(dbCalls[i]) :
    /\ dbCalls[i][k].op = "update"
    /\ dbCalls[i][k].id = loc[i].orderId
    /\ dbCalls[i][k].values.status = "failed"

\* C4 as stated: when the gateway call of a creation fails after the row was
\* inserted, the update of the row to "failed" has been made by the time the
\* failure response is returned.
C4_FailedBeforeResponse ==
  \A i \in Procs :
    Done(i) /\ handler[i] = "create_ledger" /\ UpstreamFailed(i) =>
      MarkedFailed(i) /\ resp[i].status = 500

(***************************************************************************)
(* C5.  Ledger-backed creation: the insert of the order row fails.         *)
(***************************************************************************)
\* the insert of the order row by i reported an error (or returned no row)
InsertFailed(i) ==
  /\ handler[i] = "create_ledger"
  /\ Len(dbResults[i]) >= 1
  /\ dbResults[i][1]

\* C5: when the insert of the initial order row reports an error, the request
\* is answered with status 500 and success = false, no gateway call is made
\* and the insert stays the only datastore call of the invocation.
C5_InsertFailureAborts ==
  \A i \in Procs :
    InsertFailed(i) =>
      /\ Done(i)
      /\ resp[i].status = 500
      /\ Success(i, FALSE)
      /\ upCalls[i] = <<>>
      /\ Len(dbCalls[i]) = 1
      /\ dbCalls[i][1].op = "insert"

\* a creation whose insert failed has been answered
C5_Witness ==
  \E i \in Procs : InsertFailed(i) /\ Done(i) /\ resp[i].status = 500

(***************************************************************************)
(* C6.  Ledger-backed creation: the update after a 2xx answer fails.       *)
(***************************************************************************)
\* the update of the row with the gateway's references reported an error
UpdateFailed(i) ==
  /\ handler[i] = "create_ledger"
  /\ UpstreamSucceeded(i)
  /\ Len(dbResults[i]) = Len(dbCalls[i])
  /\ dbCalls[i][Len(dbCalls[i])].op = "update"
  /\ dbResults[i][Len(dbResults[i])]

\* C6: when the gateway call succeeded and the following update of the row
\* reports an error, the response is still 200 with success = true and the
\* order, gateway-order and session identifiers it carries when the update
\* succeeds.
C6_UpdateFailureKeepsSuccess ==
  \A i \in Procs :
    UpdateFailed(i) =>
      /\ Done(i)
      /\ resp[i].status = 200
      /\ Success(i, TRUE)
      /\ resp[i].body.order_id = loc[i].orderId
      /\ resp[i].body.cashfree_order_id = Field(cfData(upResults[i][1]), "order_id")
      /\ resp[i].body.payment_session_id =
           Field(cfData(upResults[i][1]), "payment_session_id")
      /\ resp[i] = CreateLedgerSuccess(loc[i].orderId, upResults[i][1])

\* a creation whose update failed has been answered with the gateway's ids
C6_Witness ==
  \E i \in Procs :
    /\ UpdateFailed(i) /\ Done(i)
    /\ resp[i].body.cashfree_order_id = loc[i].orderId
    /\ resp[i].body.payment_session_id = "session_1"
    /\ RowStatus(loc[i].orderId) = "pending"

(***************************************************************************)
(* C7.  Ledger-backed creation: the order-items insert fails.              *)
(***************************************************************************)
\* the order_items insert of i has settled
ItemsSettled(i) ==
  /\ handler[i] = "create_ledger"
  /\ Len(dbResults[i]) >= 2
  /\ dbCalls[i][2].table = "order_items"

\* the response a creation returns, by the id of its row and the way the
\* gateway call settled alone
CreationResponse(orderId, u) ==
  IF u.kind = "throw"
    THEN json("create_ledger", [success |-> FALSE, error |-> "Unexpected server error"], 500)
  ELSE IF ~Ok(u) THEN CreateLedgerFailure(u)
  ELSE CreateLedgerSuccess(orderId, u)

\* C7: whether the order_items insert reported an error or not, the gateway
\* call that follows is issued exactly once with the payload built from the
\* request and the row id, and the final response is the one the gateway's
\* answer determines; the error flag of the items insert enters neither.
C7_ItemsFailureIgnored ==
  \A i \in Procs :
    ItemsSettled(i) =>
      /\ upCalls[i] = << HttpCall("POST", cfUrl(env[i]), "2025-01-01",
                                  cfPayload(dbCalls[i][2].id, req[i].body)) >>
      /\ Done(i) => /\ Len(upResults[i]) = 1
                    /\ resp[i] = CreationResponse(loc[i].orderId, upResults[i][1])

\* a creation whose order_items insert failed has been answered 200
C7_Witness ==
  \E i \in Procs :
    /\ ItemsSettled(i) /\ dbResults[i][2]
    /\ Done(i) /\ resp[i].status = 200 /\ Len(upCalls[i]) = 1

(***************************************************************************)
(* C8.  functions-2 pg-fetch-order: paymentStatus and isPaid.              *)
(***************************************************************************)
\* the gateway answered the order lookup of i with a 2xx JSON body
OrderFetched(i) ==
  /\ handler[i] = "fetch_order_f2"
  /\ UpstreamSucceeded(i)
  /\ upResults[i][1].parses

\* C8: for every successful gateway response the reported paymentStatus
\* equals the gateway's order_status, and isPaid is true if and only if that
\* order_status is "PAID".
C8_PaidIffStatusPaid ==
  \A i \in Procs :
    Done(i) /\ OrderFetched(i) =>
      /\ resp[i].status = 200
      /\ resp[i].body.paymentStatus = upResults[i][1].data.order_status
      /\ resp[i].body.isPaid <=> (upResults[i][1].data.order_status = "PAID")

\* a paid order has been reported as paid
C8_Witness ==
  \E i \in Procs :
    /\ Done(i) /\ OrderFetched(i)
    /\ upResults[i][1].data.order_status = "PAID"
    /\ resp[i].body.isPaid

(***************************************************************************)
(* C9.  A method the handler does not serve.                               *)
(***************************************************************************)
\* the handlers that serve GET alone or POST alone
SingleMethod ==
  { "create_ledger", "create_direct", "fetch_order_f2", "fetch_payments_f2",
    "get_order", "fetch_order_sdk", "fetch_payment_sdk", "fetch_order_http" }

C10_PreflightAnswered ==
  \A i \in Procs :
    handler[i] # "none" /\ req[i].method = "OPTIONS" =>
      /\ Done(i)
      /\ resp[i].status >= 200 /\ resp[i].status <= 299
      /\ resp[i].headers.allowOrigin = "*"
      /\ resp[i].headers.allowHeaders =
           "authorization, x-client-info, apikey, content-type"
      /\ ~HasError(i)
      /\ upCalls[i] = <<>> /\ dbCalls[i] = <<>>
      /\ upResults[i] = <<>> /\ dbResults[i] = <<>>

\* a preflight sent to an unconfigured handler has been answered
C10_Witness ==
  \E i \in Procs :
    /\ Done(i) /\ req[i].method = "OPTIONS"
    /\ ~env[i].id /\ ~env[i].supa
    /\ resp[i].status = 200

(***************************************************************************)
(* C11.  The same lookup issued twice.                                     *)
(***************************************************************************)
\* invocation i serves the request, under the configuration, served last
SameAgain(i) ==
  /\ handler[i] # "none"
  /\ prev.handler = handler[i]
  /\ prev.req = req[i]
  /\ prev.env = env[i]

C12_FetchesRequestedOrder ==
  \A i \in Procs :
    handler[i] = "get_order" /\ upCalls[i] # <<>> =>
      /\ upCalls[i][1].url = cfUrl(env[i]) \o "/" \o req[i].body.order_id
      /\ Done(i) /\ resp[i].status = 200 =>
           resp[i].body.order_id = req[i].body.order_id

(***************************************************************************)
(* C13.  Resolution order of the identifiers read from the URL.            *)
(***************************************************************************)
\* the handlers that look for identifiers in the path of the URL
UrlHandlers == {"fetch_order_sdk", "fetch_payment_sdk", "fetch_order_http"}

\* the route name handler h looks for in the path
RouteName(h) ==
  IF h = "fetch_payment_sdk" THEN "pg-order-fetch-payment" ELSE "pg-fetch-order"

\* the k-th path segment after the route name of h
Segment(h, r, k) ==
  LET parts == SelectSeq(r.path, LAMBDA part : part # "")
      at == {j \in DOMAIN parts : parts[j] = RouteName(h)}
  IN IF at = {} THEN Undefined
     ELSE LET first == CHOOSE j \in at : \A m \in at : j <= m
          IN IF first + k \in DOMAIN parts THEN parts[first + k] ELSE Undefined

\* the first non-empty of path segment, query parameter and body field
FirstNonEmpty(a, b, c) ==
  IF ~Falsy(a) THEN a ELSE IF ~Falsy(b) THEN b ELSE IF ~Falsy(c) THEN c ELSE ""

\* the order id and the payment id the gateway call of i carries
CalledOrder(i) ==
  IF handler[i] = "fetch_order_http"
    THEN loc[i].orderId
    ELSE upCalls[i][1].args.order_id
CalledPayment(i) == upCalls[i][1].args.cf_payment_id

HttpHandlers ==
  { "create_ledger", "create_direct", "fetch_order_f2", "fetch_payments_f2",
    "get_order", "fetch_order_http" }

\* the path handler h asks the gateway for
GatewayPath(h, orderId) ==
  CASE h \in {"create_ledger", "create_direct", "get_order"} -> "/pg/orders"
    [] h = "fetch_payments_f2" -> "/pg/orders/" \o orderId \o "/payments"
    [] OTHER -> "/pg/orders/" \o orderId

\* the URL handler h calls under configuration e
GatewayUrl(h, e, orderId) ==
  CASE h \in {"create_ledger", "get_order"} -> cfUrl(e)
    [] h = "create_direct" -> ApiBase(e) \o "/pg/orders"
    [] h \in {"fetch_order_f2", "fetch_payments_f2"} -> apiUrl(h, e, orderId)
    [] OTHER -> baseUrl(e) \o "/pg/orders/" \o orderId

\* the values of CASHFREE_ENVIRONMENT that name an environment
Recognized == {"sandbox", "SANDBOX", "PRODUCTION"}

\* C14 as stated: the base URL of every gateway call is one of the two fixed
\* URLs, and within one handler a missing flag and every unrecognized flag
\* value select the same one of the two.
C14_OneDefaultBase ==
  \A i \in Procs :
    handler[i] \in HttpHandlers /\ upCalls[i] # <<>> =>
      LET h == handler[i]
          id == loc[i].orderId
          unset == [env[i] EXCEPT !.flag = Undefined]
      IN /\ upCalls[i][1].url = GatewayUrl(h, env[i], id)
         /\ upCalls[i][1].url \in { SandboxUrl \o GatewayPath(h, id),
                                    ProductionUrl \o GatewayPath(h, id) }
         /\ env[i].flag \notin Recognized =>
              upCalls[i][1].url = GatewayUrl(h, unset, id)


(***************************************************************************)
(* C15.  Without credentials nothing leaves the function.                  *)
(***************************************************************************)
\* the client id or the client secret is absent from the environment of i
CredentialsAbsent(i) == ~env[i].id \/ ~env[i].secret

\* C15: at every point of an invocation that runs with the client id or the
\* client secret absent, the handler has issued no call to the gateway and
\* no call to the datastore.
C15_NoCallWithoutCredentials ==
  \A i \in Procs :
    handler[i] # "none" /\ CredentialsAbsent(i) =>
      upCalls[i] = <<>> /\ dbCalls[i] = <<>>

\* a request with its identifier answered while a credential is absent, with
\* everything else the handler needs in place
C15_Witness ==
  \E i \in Procs :
    /\ Done(i)
    /\ handler[i] = "fetch_order_f2"
    /\ CredentialsAbsent(i)
    /\ req[i].method = "POST"
    /\ req[i].body.kind = "object" /\ ~Falsy(req[i].body.orderId)
    /\ resp[i].status = 500


(***************************************************************************)
(* C16.  The answer to a request that finds no credentials.                *)
(***************************************************************************)
\* C16 as stated: every request other than OPTIONS that is handled while the
\* client id or the client secret is absent is answered with status 500,
\* whatever its method, parameters and body.
C16_NoCredentialsIs500 ==
  \A i \in Procs :
    Done(i) /\ req[i].method # "OPTIONS" /\ CredentialsAbsent(i) =>
      resp[i].status = 500


(***************************************************************************)
(* C17.  A gateway response whose body is not JSON.                        *)
(***************************************************************************)
\* the gateway answered the HTTP call of i with a body that is not JSON
UpstreamUnparsable(i) ==
  /\ handler[i] \in HttpHandlers
  /\ Len(upResults[i]) = 1
  /\ upResults[i][1].kind = "resp"
  /\ ~upResults[i][1].parses

\* C17 as stated: a gateway response whose body cannot be parsed as JSON is
\* answered with status 500 and success = false whatever its HTTP status,
\* and the ledger-backed creation does not set its row to "created".
C17_UnparsableIsUpstreamError ==
  \A i \in Procs :
    Done(i) /\ UpstreamUnparsable(i) =>
      /\ resp[i].status = 500
      /\ Success(i, FALSE)
      /\ handler[i] = "create_ledger" => RowStatus(loc[i].orderId) # "created"


(***************************************************************************)
(* C18.  The success field of a response.                                  *)
(***************************************************************************)
\* C18 as stated: the body of the response to every request other than
\* OPTIONS carries a boolean success that is true exactly when the status is
\* 200 (false for 400, 405 and 500), with an error text whenever it is false.
C18_SuccessMirrorsStatus ==
  \A i \in Procs :
    Done(i) /\ req[i].method # "OPTIONS" =>
      /\ "success" \in DOMAIN resp[i].body
      /\ resp[i].body.success \in BOOLEAN
      /\ resp[i].body.success <=> resp[i].status = 200
      /\ ~resp[i].body.success => HasError(i)


(***************************************************************************)
(* C19.  The statuses a handler answers with.                              *)
(***************************************************************************)
Statuses == {200, 400, 405, 500}

\* the gateway told i that what it asked for does not exist
UpstreamNotFound(i) ==
  /\ upResults[i] # <<>>
  /\ LET u == upResults[i][Len(upResults[i])]
     IN \/ u.kind = "resp" /\ u.status = 404
        \/ u.kind = "reject" /\ u.message = "Request failed with status code 404"

LedgerStatuses == {"pending", "created", "failed", "paid"}

\* C20 as stated: in every reachable state the status of every row of the
\* orders table is one of pending, created, failed and paid.
C20_RowStatusInLedgerSet ==
  \A k \in 1..Len(orders) : orders[k].status \in LedgerStatuses


(***************************************************************************)
(* C21.  Two creation requests side by side.                               *)
(***************************************************************************)
Creation == {"create_ledger", "create_direct"}

\* invocation i has the identifier of its order
HasOrderId(i) == handler[i] \in Creation /\ loc[i].orderId # Undefined

\* every call of invocation i is its own: the gateway call carries its order
\* id, every datastore call that names a row names its row, and there is at
\* most one gateway call
OwnCalls(i) ==
  /\ Len(upCalls[i]) <= 1
  /\ \A k \in 1..Len(upCalls[i]) : upCalls[i][k].body.order_id = loc[i].orderId
  /\ \A k \in 1..Len(dbCalls[i]) :
       dbCalls[i][k].id # Undefined => dbCalls[i][k].id = loc[i].orderId

\* invocation i has passed the point where its gateway call is issued
PastInsert(i) ==
  \/ handler[i] = "create_direct"
  \/ /\ handler[i] = "create_ledger"
     /\ pc[i] \notin {"cl_insert", "cl_items"}
     /\ dbResults[i] # <<>> /\ ~dbResults[i][1]

\* two side-by-side creations each make their own calls, whatever the other
\* does, and no creation is dropped for resembling the other
Independent ==
  \A i \in Procs :
    handler[i] \in Creation =>
      /\ OwnCalls(i)
      /\ PastInsert(i) => Len(upCalls[i]) = 1
      /\ handler[i] = "create_ledger" /\ HasOrderId(i) => RowStatus(loc[i].orderId) # "none"

Pending(i) ==
  (Len(upCalls[i]) - Len(upResults[i])) + (Len(dbCalls[i]) - Len(dbResults[i]))

\* C22: the ledger-backed creation issues its gateway call only after the
\* insert of the order row has completed (without error), pg-get-order issues
\* the update of the row only after its gateway call has completed (with a
\* 2xx answer), and the two calls of an invocation never overlap.
C22_CallsInSequence ==
  \A i \in Procs :
    /\ Pending(i) \in {0, 1}
    /\ handler[i] = "create_ledger" /\ upCalls[i] # <<>> =>
         /\ dbCalls[i][1].op = "insert" /\ dbCalls[i][1].table = "orders"
         /\ dbResults[i] # <<>> /\ ~dbResults[i][1]
         /\ upResults[i] = <<>> => Len(dbResults[i]) = Len(dbCalls[i])
    /\ handler[i] = "get_order" /\ dbCalls[i] # <<>> =>
         /\ Len(upCalls[i]) = 1 /\ Len(upResults[i]) = 1
         /\ upResults[i][1].kind = "resp" /\ Ok(upResults[i][1])
         /\ dbCalls[i][1].op = "update"

\* a row inserted by a creation whose gateway call followed, then updated to
\* "paid" by a pg-get-order whose gateway call came first
C22_Witness ==
  \E i \in Procs :
    /\ handler[i] = "get_order"
    /\ Done(i)
    /\ resp[i].status = 200
    /\ \E k \in 1..Len(orders) :
         /\ orders[k].id = loc[i].orderId
         /\ orders[k].status = "paid"
         /\ orders[k].cashfree_order_id # Null


(***************************************************************************)
(* C23.  Retries of the gateway call.                                      *)
(***************************************************************************)
\* C23 as stated: every invocation issues at most one gateway call; after a
\* gateway call has failed no second one is made in the same invocation.
C23_AtMostOneGatewayCall ==
  \A i \in Procs : Len(upCalls[i]) <= 1


(***************************************************************************)
(* C24.  The number of datastore calls of an invocation.                   *)
(***************************************************************************)
\* C24 as stated: every invocation makes at most one datastore call (an
\* insert or an update), besides at most one gateway call.
C24_AtMostOneDatastoreCall ==
  \A i \in Procs : Len(dbCalls[i]) <= 1


(***************************************************************************)
(* C25.  State shared between invocations of one process.                  *)
(***************************************************************************)
\* C25 as stated: no invocation writes a variable or object that another
\* invocation of the same process can read; what an invocation mutates is
\* local to it or lives in the datastore.  The one object of the process the
\* handlers can reach is the imported Cashfree class, so its static members
\* stay as the import left them.
C25_NoSharedWrites == CashfreeConfig = NoConfig


(***************************************************************************)
(* C26.  Rejected requests have no effect.                                 *)
(***************************************************************************)
\* C26: an invocation that answers with status 400 or 405 has issued no
\* gateway call and no datastore call: validation and the method check come
\* before every call, so the ledger and the gateway are left as they were.
C26_RejectedWithoutCalls ==
  \A i \in Procs :
    Done(i) /\ resp[i].status \in {400, 405} =>
      upCalls[i] = <<>> /\ dbCalls[i] = <<>>

\* a ledger-backed creation rejected for its amount, with the configuration
\* complete
C26_Witness ==
  \E i \in Procs :
    /\ Done(i)
    /\ handler[i] = "create_ledger"
    /\ Configured(handler[i], env[i])
    /\ req[i].method = "POST"
    /\ resp[i].status = 400


(***************************************************************************)
(* C27.  The row of a creation that has been answered.                     *)
(***************************************************************************)
\* invocation i of the ledger-backed creation inserted its order row
InsertedRow(i) ==
  /\ handler[i] = "create_ledger"
  /\ dbResults[i] # <<>> /\ ~dbResults[i][1]

\* C27 as stated: once a ledger-backed creation that inserted an order row
\* has returned its response, the row is no longer "pending": it is "created"
\* if the response is a success and "failed" if it is a failure, on every
\* path, a thrown gateway call and a failed status update included.
C27_RowSettledAtResponse ==
  \A i \in Procs :
    Done(i) /\ InsertedRow(i) =>
      RowStatus(loc[i].orderId) = IF Success(i, TRUE) THEN "created" ELSE "failed"


(***************************************************************************)
(* C28.  Lookups of one order side by side.                                *)
(***************************************************************************)
\* every invocation has completed
AllCompleted == \A i \in Procs : pc[i] \in {"idle", "done"}

\* invocation i of pg-get-order answered 200 for order o after the gateway
\* reported status s to it (so its update of the row succeeded)
Recorded(i, o, s) ==
  /\ handler[i] = "get_order"
  /\ Done(i) /\ resp[i].status = 200
  /\ loc[i].orderId = o
  /\ upResults[i][1].data.order_status = s

\* C28 as stated: with a gateway status that only moves forward (ACTIVE, then
\* PAID), once all concurrent pg-get-order invocations on one order have
\* completed, the row's status is the lower-cased latest status any of them
\* observed: an invocation that read ACTIVE never overwrites "paid".
C28_LatestStatusWins ==
  \A i \in Procs :
    AllCompleted /\ Recorded(i, loc[i].orderId, "PAID")
                 /\ RowStatus(loc[i].orderId) # "none" =>
      RowStatus(loc[i].orderId) = "paid"


(***************************************************************************)
(* C29.  pg-get-order: what reaches the ledger and what is answered.       *)
(***************************************************************************)
\* the gateway call of invocation i failed: thrown, refused, or not JSON
LookupFailed(i) ==
  /\ Len(upResults[i]) = 1
  /\ \/ upResults[i][1].kind = "throw"
     \/ ~Ok(upResults[i][1])
     \/ ~upResults[i][1].parses

\* C29: in pg-get-order a failed gateway call (non-2xx, thrown, unparsable
\* body) is followed by no update, so the row is left as it was; a success
\* response is returned only after the update reported no error, and a
\* reported update error is answered with status 500.
C29_UpdateGuardsSuccess ==
  \A i \in Procs :
    handler[i] = "get_order" =>
      /\ LookupFailed(i) => dbCalls[i] = <<>>
      /\ Done(i) /\ Success(i, TRUE) => dbResults[i] = <<FALSE>>
      /\ Done(i) /\ dbResults[i] = <<TRUE>> => resp[i].status = 500

\* a lookup of an existing row whose update reported an error: answered 500,
\* the row as the creation left it
C29_Witness ==
  \E i \in Procs :
    /\ handler[i] = "get_order"
    /\ Done(i)
    /\ dbResults[i] = <<TRUE>>
    /\ resp[i].status = 500
    /\ RowStatus(loc[i].orderId) = "created"


(***************************************************************************)
(* C30.  Every invocation is answered.                                     *)
(***************************************************************************)
\* C30: when every datastore call and every gateway call eventually returns
\* or throws, every invocation eventually returns a response, on every path
\* (validation failure, configuration error, gateway failure, datastore
\* failure, thrown exception); the response has a status and, once
\* returned, is not replaced by another.
C30_AlwaysAnswered ==
  /\ \A i \in Procs : (pc[i] # "idle") ~> Done(i)
  /\ [](\A i \in Procs : Done(i) => resp[i].status \in Statuses)
  /\ [][\A i \in Procs : Done(i) => resp'[i] = resp[i] \/ pc'[i] = "idle"]_vars

\* a creation answered after its gateway call threw
C30_Witness ==
  \E i \in Procs :
    /\ Done(i)
    /\ handler[i] = "create_direct"
    /\ upResults[i] = <<UpThrow>>
    /\ resp[i].status = 500

============================================================================
